---- MODULE Spec2Model ----
(***************************************************************************)
(* CodeThreat AppSec GitHub Action: the run() entry point, parseInputs,    *)
(* the CodeThreatAction pipeline (authenticate, repository setup, scan,    *)
(* export, SARIF upload, failure conditions) and setOutputs.               *)
(*                                                                         *)
(* Remote collaborators (CodeThreatApiClient, the GitHub code scanning     *)
(* API, the file system) answer nondeterministically; every answer is      *)
(* drawn when the call is made.                                            *)
(***************************************************************************)
EXTENDS Integers, Sequences, FiniteSets, TLC

VARIABLES
  env,          \* the action's raw inputs (INPUT_* texts) and GITHUB_TOKEN
  pc,           \* position of run(): the next stage to execute
  inputs,       \* ActionInputs returned by parseInputs (Null before)
  repositoryId, \* execute(): let repositoryId
  scanId,       \* execute(): let scanId
  results,      \* execute(): const results = processResults(scanId)
  returned,     \* ActionOutputs returned by execute() (Null before)
  error,        \* message of the error travelling to run()'s catch
  calls,        \* collaborator operations invoked so far, in order
  files,        \* writes to the results file, in order
  outputSlots,  \* core.setOutput calls, in order
  failed,       \* core.setFailed messages, in order
  log,          \* notable log lines, in order
  resp,         \* the collaborators' answers of this run, by call
  attempt,      \* 1: first run of the workflow; 2: the re-run
  previous      \* outcome of the first run, kept by the re-run

vars == <<env, pc, inputs, repositoryId, scanId, results, returned, error,
          calls, files, outputSlots, failed, log, resp, attempt, previous>>

(***************************************************************************)
(* Bounds of the model.                                                    *)
(***************************************************************************)
MaxSeverity == 1   \* critical and high counts of a summary range over 0..MaxSeverity
MaxTotal == 3      \* the total of a summary ranges over 0..MaxTotal

(***************************************************************************)
(* Values                                                                  *)
(***************************************************************************)
Null == [null |-> TRUE]
NoError == ""

\* A JavaScript number as parseInt returns it: an integer or NaN.
Num(n) == [nan |-> FALSE, val |-> n]
NaN == [nan |-> TRUE, val |-> 0]
\* a < b and a > b on JavaScript numbers: every comparison with NaN is false.
JsLt(a, b) == ~a.nan /\ ~b.nan /\ a.val < b.val
JsGt(a, b) == ~a.nan /\ ~b.nan /\ a.val > b.val

DigitChars == {"0", "1", "2", "3", "4", "5", "6", "7", "8", "9"}
DigitVal(c) ==
  CASE c = "0" -> 0 [] c = "1" -> 1 [] c = "2" -> 2 [] c = "3" -> 3
    [] c = "4" -> 4 [] c = "5" -> 5 [] c = "6" -> 6 [] c = "7" -> 7
    [] c = "8" -> 8 [] c = "9" -> 9

RECURSIVE ParseDigits(_, _)
ParseDigits(s, acc) ==
  IF s = <<>> \/ Head(s) \notin DigitChars
  THEN acc
  ELSE ParseDigits(Tail(s), acc * 10 + DigitVal(Head(s)))

\* parseInt(text): optional sign, then the longest prefix of decimal digits;
\* NaN when there is no digit. A text is a sequence of characters.
parseInt(s) ==
  LET signed == s # <<>> /\ Head(s) \in {"-", "+"}
      body == IF signed THEN Tail(s) ELSE s
      sign == IF signed /\ Head(s) = "-" THEN -1 ELSE 1
  IN IF body = <<>> \/ Head(body) \notin DigitChars
     THEN NaN
     ELSE Num(sign * ParseDigits(body, 0))

DigitChar(d) ==
  CASE d = 0 -> "0" [] d = 1 -> "1" [] d = 2 -> "2" [] d = 3 -> "3"
    [] d = 4 -> "4" [] d = 5 -> "5" [] d = 6 -> "6" [] d = 7 -> "7"
    [] d = 8 -> "8" [] d = 9 -> "9"

RECURSIVE NatToString(_)
NatToString(n) ==
  IF n < 10 THEN <<DigitChar(n)>>
  ELSE Append(NatToString(n \div 10), DigitChar(n % 10))

\* Number.prototype.toString() of an integer.
toString(n) == IF n < 0 THEN <<"-">> \o NatToString(-n) ELSE NatToString(n)

(***************************************************************************)
(* The invoking context (github.context) and the process environment.     *)
(***************************************************************************)
ContextOwner == <<"a", "c", "m", "e">>
ContextRepo == <<"w", "i", "d", "g", "e", "t">>
ContextRef == "refs/heads/main"
ContextBranch == "main"   \* ContextRef.replace('refs/heads/', '')
Cwd == "/github/workspace"

\* path.resolve of a relative file name.
PathResolve(f) == Cwd \o "/" \o f

HttpsGitHub == <<"h", "t", "t", "p", "s", ":", "/", "/", "g", "i", "t", "h", "u", "b", ".", "c", "o", "m", "/">>
DotGit == <<".", "g", "i", "t">>

(***************************************************************************)
(* parseInputs                                                             *)
(***************************************************************************)
\* core.getInput(name): the text of the input, '' when it is not set.
GetInput(e, name) == e[name]

\* core.getInput(name, {required: true}) throws when the input is empty.
RequiredMissing(e, name) == GetInput(e, name) = ""
\* Mutant of RequiredMissingChars: the input is not required.
RequiredMissingChars_Never(e, name) == FALSE
\* The same for an input whose text is held as a sequence of characters.
RequiredMissingChars(e, name) == GetInput(e, name) = <<>>

BooleanTrue == {"true", "True", "TRUE"}
BooleanFalse == {"false", "False", "FALSE"}
\* core.getBooleanInput(name) throws a TypeError for any other text.
BooleanInvalid(e, name) == GetInput(e, name) \notin BooleanTrue \cup BooleanFalse
GetBooleanInput(e, name) == GetInput(e, name) \in BooleanTrue

BooleanInputs ==
  <<"waitForCompletion", "uploadSarif", "failOnCritical", "failOnHigh",
    "skipImport", "verbose">>

\* x || d on strings: the default replaces the empty string.
OrDefault(x, d) == IF x = "" THEN d ELSE x
\* The same on a text held as a sequence of characters.
OrDefaultChars(x, d) == IF x = <<>> THEN d ELSE x

DefaultTimeout == <<"4", "3", "2", "0", "0">>
DefaultPollInterval == <<"3", "0">>
DefaultMaxViolations == <<"0">>
MinTimeout == 60
MaxTimeout == 86400
MinPollInterval == 10
MaxPollInterval == 60

\* Mutant of TimeoutOutOfRange: the boundary values are rejected.
TimeoutOutOfRange_Exclusive(t) ==
  JsLt(t, Num(MinTimeout + 1)) \/ JsGt(t, Num(MaxTimeout - 1))
TimeoutOutOfRange(t) == JsLt(t, Num(MinTimeout)) \/ JsGt(t, Num(MaxTimeout))
PollIntervalOutOfRange(p) ==
  JsLt(p, Num(MinPollInterval)) \/ JsGt(p, Num(MaxPollInterval))

validFormats == {"json", "sarif", "csv", "xml", "junit"}
DefaultOutputFormat == "sarif"

\* Mutant of DefaultOutputFile: junit keeps its own name as the extension.
DefaultOutputFile_NoJunit(outputFormat) == "codethreat-results." \o outputFormat
DefaultOutputFile(outputFormat) ==
  "codethreat-results." \o (IF outputFormat = "junit" THEN "xml" ELSE outputFormat)

\* Mutant of ScanTypesOf: the scan-types input is read.
ScanTypesOf_FromInput(e) ==
  IF GetInput(e, "scanTypes") = "" THEN <<>> ELSE <<GetInput(e, "scanTypes")>>
\* const scanTypes: string[] = [] : no input is read.
ScanTypesOf(e) == <<>>

ErrApiKey == "Input required and not supplied: api-key"
ErrOrganization == "Input required and not supplied: organization-slug"
ErrServerUrl == "Input required and not supplied: server-url"
ErrBoolean == "Input does not meet YAML 1.2 Core Schema specification"
ErrTimeout == "Timeout must be between 60 and 86400 seconds (1 minute to 24 hours)"
ErrPollInterval == "Poll interval must be between 10 and 60 seconds"
ErrOutputFormat == "Invalid output format"

Throw(msg) == [error |-> msg, value |-> Null]
Return(v) == [error |-> NoError, value |-> v]

parseInputs(e) ==
  LET timeout == parseInt(OrDefaultChars(GetInput(e, "timeout"), DefaultTimeout))
      pollInterval == parseInt(OrDefaultChars(GetInput(e, "pollInterval"), DefaultPollInterval))
      maxViolations == parseInt(OrDefaultChars(GetInput(e, "maxViolations"), DefaultMaxViolations))
      outputFormat == OrDefault(GetInput(e, "outputFormat"), DefaultOutputFormat)
      outputFile == OrDefault(GetInput(e, "outputFile"), DefaultOutputFile(outputFormat))
      repositoryUrl ==
        OrDefaultChars(GetInput(e, "repositoryUrl"),
                       HttpsGitHub \o ContextOwner \o <<"/">> \o ContextRepo \o DotGit)
      branch == OrDefault(GetInput(e, "branch"), ContextBranch)
  IN IF BooleanInvalid(e, "verbose") THEN Throw(ErrBoolean)   \* new Logger()
     ELSE IF RequiredMissing(e, "apiKey") THEN Throw(ErrApiKey)
     ELSE IF RequiredMissing(e, "organizationSlug") THEN Throw(ErrOrganization)
     ELSE IF \E i \in 1..Len(BooleanInputs) : BooleanInvalid(e, BooleanInputs[i])
       THEN Throw(ErrBoolean)
     ELSE IF TimeoutOutOfRange(timeout) THEN Throw(ErrTimeout)
     ELSE IF PollIntervalOutOfRange(pollInterval) THEN Throw(ErrPollInterval)
     ELSE IF outputFormat \notin validFormats THEN Throw(ErrOutputFormat)
     ELSE IF RequiredMissingChars(e, "serverUrl") THEN Throw(ErrServerUrl)
     ELSE Return([apiKey |-> GetInput(e, "apiKey"),
                  serverUrl |-> GetInput(e, "serverUrl"),
                  organizationSlug |-> GetInput(e, "organizationSlug"),
                  repositoryUrl |-> repositoryUrl,
                  branch |-> branch,
                  scanTypes |-> ScanTypesOf(e),
                  waitForCompletion |-> GetBooleanInput(e, "waitForCompletion"),
                  timeout |-> timeout,
                  pollInterval |-> pollInterval,
                  outputFormat |-> outputFormat,
                  outputFile |-> outputFile,
                  uploadSarif |-> GetBooleanInput(e, "uploadSarif"),
                  failOnCritical |-> GetBooleanInput(e, "failOnCritical"),
                  failOnHigh |-> GetBooleanInput(e, "failOnHigh"),
                  maxViolations |-> maxViolations,
                  skipImport |-> GetBooleanInput(e, "skipImport"),
                  verbose |-> GetBooleanInput(e, "verbose")])

(***************************************************************************)
(* SarifUploader and CodeThreatAction: construction                        *)
(***************************************************************************)
ErrGitHubToken == "GitHub token is required for SARIF upload"

\* core.getInput('github-token') || process.env.GITHUB_TOKEN
GitHubToken(e) == OrDefault(GetInput(e, "githubToken"), e.GITHUB_TOKEN)

\* new SarifUploader(logger): throws without a token.
SarifUploaderConstructor(e) ==
  IF GitHubToken(e) = "" THEN Throw(ErrGitHubToken) ELSE Return(Null)

(***************************************************************************)
(* Collaborators' answers                                                  *)
(***************************************************************************)
NoResponses ==
  [validateAuth |-> Null, importRepository |-> Null, runScan |-> Null,
   breakdown |-> Null, exportScanResults |-> Null, writeFile |-> Null,
   codeScanning |-> Null, uploadSarif |-> Null]

OkOrFail == {[ok |-> TRUE], [ok |-> FALSE]}

ImportResponses ==
  {[ok |-> FALSE, alreadyExists |-> FALSE, id |-> ""]}
  \cup {[ok |-> TRUE, alreadyExists |-> b, id |-> "repo-1"] : b \in BOOLEAN}

\* The counts runScan reports with a synchronous scan (scanResult.results).
ScanCounts == [total |-> 9, critical |-> 8, high |-> 7, medium |-> 6, low |-> 5]

ScanResponses ==
  {[ok |-> FALSE, synchronous |-> FALSE, hasResults |-> FALSE, results |-> Null, id |-> ""],
   [ok |-> TRUE, synchronous |-> FALSE, hasResults |-> FALSE, results |-> Null, id |-> "scan-1"],
   [ok |-> TRUE, synchronous |-> TRUE, hasResults |-> FALSE, results |-> Null, id |-> "scan-1"],
   [ok |-> TRUE, synchronous |-> TRUE, hasResults |-> TRUE, results |-> ScanCounts, id |-> "scan-1"]}

Summaries ==
  {[total |-> t, critical |-> c, high |-> h, medium |-> 2, low |-> 1] :
     t \in 0..MaxTotal, c \in 0..MaxSeverity, h \in 0..MaxSeverity}

\* The exported results as a document: whether the text is JSON, its
\* top-level $schema and version ("absent", "empty" for a falsy value such as
\* '', "present"), and its runs: absent, not a list, or a list of runs, each
\* an object ("run") or null ("null").
Document(json, schema, version, runs) ==
  [json |-> json, schema |-> schema, version |-> version, runs |-> runs]
NoRuns == [kind |-> "absent", items |-> <<>>]
RunsNotList == [kind |-> "notList", items |-> <<>>]
RunsList(items) == [kind |-> "list", items |-> items]
SarifDocument == Document(TRUE, "present", "present", RunsList(<<"run">>))

Documents ==
  {SarifDocument,
   Document(FALSE, "absent", "absent", NoRuns),
   Document(TRUE, "absent", "present", RunsList(<<"run">>)),
   Document(TRUE, "empty", "present", RunsList(<<"run">>)),
   Document(TRUE, "present", "absent", RunsList(<<"run">>)),
   Document(TRUE, "present", "empty", RunsList(<<"run">>)),
   Document(TRUE, "present", "present", NoRuns),
   Document(TRUE, "present", "present", RunsNotList),
   Document(TRUE, "present", "present", RunsList(<<>>)),
   Document(TRUE, "present", "present", RunsList(<<"run", "null">>)),
   Document(TRUE, "absent", "absent", RunsList(<<>>))}

\* Optional numbers: <<>> is undefined, <<n>> is n.
ExportResponses ==
  {[ok |-> FALSE, textual |-> FALSE, summary |-> Null,
    securityScore |-> <<>>, scanDuration |-> <<>>, document |-> SarifDocument]}
  \cup {[ok |-> TRUE, textual |-> TRUE, summary |-> s,
         securityScore |-> <<85>>, scanDuration |-> <<12>>,
         document |-> SarifDocument] : s \in Summaries}
  \cup {[ok |-> TRUE, textual |-> FALSE, summary |-> Null,
         securityScore |-> <<>>, scanDuration |-> <<>>, document |-> d] :
           d \in Documents \ {Document(FALSE, "absent", "absent", NoRuns)}}
  \cup {[ok |-> TRUE, textual |-> TRUE, summary |-> Null,
         securityScore |-> <<>>, scanDuration |-> <<>>,
         document |-> Document(FALSE, "absent", "absent", NoRuns)],
        [ok |-> TRUE, textual |-> FALSE,
         summary |-> [total |-> 5, critical |-> 0, high |-> 1, medium |-> 2, low |-> 2],
         securityScore |-> <<0>>, scanDuration |-> <<0>>, document |-> SarifDocument]}

\* The answers a call may get: any on the first run, the recorded one on the
\* re-run, where only the findings upload answers the other way.
Answers(key, S) ==
  IF attempt = 1 THEN S
  ELSE IF key = "codeScanning" THEN {[ok |-> ~resp[key].ok]}
  ELSE {resp[key]}

(***************************************************************************)
(* CodeThreatAction: the stages of execute()                               *)
(***************************************************************************)
ErrAuthentication == "Authentication failed"
ErrRepositorySetup == "Repository setup failed: Repository import failed"
ErrScanExecution == "Scan execution failed"
ErrResultsProcessing == "Results processing failed"
ErrCritical == "Build failed: critical vulnerabilities found"
ErrHigh == "Build failed: high severity vulnerabilities found"
ErrMaxViolations == "Build failed: violations exceed maximum allowed"

Call(op, args) == [op |-> op, args |-> args]
Log(level, message) == [level |-> level, message |-> message]

IsPrefix(p, s) == Len(p) <= Len(s) /\ SubSeq(s, 1, Len(p)) = p

\* String.prototype.replace(pattern, replacement) with a string pattern:
\* the first occurrence only.
RECURSIVE ReplaceFirst(_, _, _)
ReplaceFirst(s, p, r) ==
  IF IsPrefix(p, s) THEN r \o SubSeq(s, Len(p) + 1, Len(s))
  ELSE IF s = <<>> THEN <<>>
  ELSE <<Head(s)>> \o ReplaceFirst(Tail(s), p, r)

\* `${baseUrl}/${organizationSlug}/scans/${scanId}`, kept as the base URL and
\* the path segments that follow it.
generateScanUrl(inp, id) ==
  [baseUrl |-> ReplaceFirst(ReplaceFirst(inp.serverUrl, <<"/", "a", "p", "i">>, <<>>),
                            <<"a", "p", "i", ".">>, <<"a", "p", "p", ".">>),
   path |-> <<inp.organizationSlug, "scans", id>>]

\* Mutant of validateAuthentication: a rejected credential is not reported.
validateAuthentication_Swallowed(r) == NoError

\* validateAuthentication: the error it throws, NoError when it returns.
validateAuthentication(r) == IF r.ok THEN NoError ELSE ErrAuthentication

\* setupRepository: the error it throws, given importRepository's answer.
setupRepository(r) == IF r.ok THEN NoError ELSE ErrRepositorySetup

\* Mutant of executeScan: a failed scan is not reported.
executeScan_Swallowed(r) == NoError

\* executeScan: the error it throws, given runScan's answer.
executeScan(r) == IF r.ok THEN NoError ELSE ErrScanExecution

\* Mutant of processResults: a failed file write is not reported.
processResults_IgnoresWrite(r, w) == IF r.ok THEN NoError ELSE ErrResultsProcessing

\* processResults: the error it throws, given the answers of
\* exportScanResults and of fs.writeFile.
processResults(r, w) == IF r.ok /\ w.ok THEN NoError ELSE ErrResultsProcessing

(***************************************************************************)
(* Repository URLs: normalizeGitHubUrl and extractRepoName                 *)
(***************************************************************************)
LowerCaseLetters ==
  {"a", "b", "c", "d", "e", "f", "g", "h", "i", "j", "k", "l", "m", "n", "o", "p", "q", "r", "s", "t", "u", "v", "w", "x", "y", "z"}
UpperCaseLetters ==
  {"A", "B", "C", "D", "E", "F", "G", "H", "I", "J", "K", "L", "M", "N", "O", "P", "Q", "R", "S", "T", "U", "V", "W", "X", "Y", "Z"}
\* The characters of the class [\w-].
WordChars == LowerCaseLetters \cup UpperCaseLetters \cup DigitChars \cup {"_", "-"}

StartsWith(s, p) == IsPrefix(p, s)
EndsWith(s, p) == Len(p) <= Len(s) /\ SubSeq(s, Len(s) - Len(p) + 1, Len(s)) = p
\* s.substring(n)
Drop(s, n) == SubSeq(s, n + 1, Len(s))

GitProtocol == <<"g", "i", "t", ":", "/", "/">>
HttpsProtocol == <<"h", "t", "t", "p", "s", ":", "/", "/">>
HttpProtocol == <<"h", "t", "t", "p", ":", "/", "/">>
SshProtocol == <<"s", "s", "h", ":", "/", "/">>
GitAt == <<"g", "i", "t", "@">>
SshGitHub == <<"g", "i", "t", "@", "g", "i", "t", "h", "u", "b", ".", "c", "o", "m", ":">>
GitHubCom == <<"g", "i", "t", "h", "u", "b", ".", "c", "o", "m">>
UnknownRepository == <<"u", "n", "k", "n", "o", "w", "n", "-", "r", "e", "p", "o", "s", "i", "t", "o", "r", "y">>

\* F(x), with x evaluated once.
Strict(F(_), x) == CHOOSE r \in {F(v) : v \in {x}} : TRUE

\* url.replace(/^git:\/\//, 'https://')
ReplaceGitProtocol(url) ==
  IF StartsWith(url, GitProtocol)
  THEN HttpsProtocol \o Drop(url, Len(GitProtocol)) ELSE url
\* url.replace(/^git@github\.com:/, 'https://github.com/')
ReplaceSshGitHub(url) ==
  IF StartsWith(url, SshGitHub) THEN HttpsGitHub \o Drop(url, Len(SshGitHub)) ELSE url
\* if (!url.startsWith('https://') && !url.startsWith('http://')) {
\*   if (url.startsWith('github.com')) url = 'https://' + url }
EnsureProtocol(url) ==
  IF ~StartsWith(url, HttpsProtocol) /\ ~StartsWith(url, HttpProtocol)
     /\ StartsWith(url, GitHubCom)
  THEN HttpsProtocol \o url ELSE url
\* if (!url.endsWith('.git')) url = url + '.git'
EnsureDotGit(url) == IF ~EndsWith(url, DotGit) THEN url \o DotGit ELSE url
AppendDotGit(url) == url \o DotGit

\* Mutant of normalizeGitHubUrl: the extension is appended without a look at
\* the end of the URL.
normalizeGitHubUrl_AlwaysAppends(url) ==
  IF url = <<>> THEN url
  ELSE Strict(AppendDotGit,
         Strict(EnsureProtocol, Strict(ReplaceSshGitHub, Strict(ReplaceGitProtocol, url))))

normalizeGitHubUrl(url) ==
  IF url = <<>> THEN url   \* if (!url) return url
  ELSE Strict(EnsureDotGit,
         Strict(EnsureProtocol, Strict(ReplaceSshGitHub, Strict(ReplaceGitProtocol, url))))

\* The end of the longest run of [\w-] characters of s that starts at j;
\* j - 1 when s[j] is not such a character.
RECURSIVE WordRunEnd(_, _)
WordRunEnd(s, j) ==
  IF j <= Len(s) /\ s[j] \in WordChars THEN WordRunEnd(s, j + 1) ELSE j - 1

\* /github\.com[:/][\w-]+\/([\w-]+)/ matched at position i of s: the
\* captured group, <<>> when there is no match at i. The owner is the run of
\* [\w-] characters after the separator and has to be followed by '/'; the
\* group is the run of [\w-] characters after that.
GithubMatchAt(s, i) ==
  LET sep == i + Len(GitHubCom)
      Group(from) ==
        Strict(LAMBDA repoEnd : IF repoEnd >= from THEN SubSeq(s, from, repoEnd) ELSE <<>>,
               WordRunEnd(s, from))
      AfterOwner(ownerEnd) ==
        IF ownerEnd > sep /\ ownerEnd + 1 <= Len(s) /\ s[ownerEnd + 1] = "/"
        THEN Group(ownerEnd + 2) ELSE <<>>
  IN IF /\ sep <= Len(s)
        /\ SubSeq(s, i, sep - 1) = GitHubCom
        /\ s[sep] \in {":", "/"}
     THEN Strict(AfterOwner, WordRunEnd(s, sep + 1))
     ELSE <<>>

\* cleanUrl.match(...): the group captured by the leftmost match.
GithubMatch(s) ==
  LET at == {i \in 1..Len(s) : GithubMatchAt(s, i) # <<>>}
  IN IF at = {} THEN <<>>
     ELSE GithubMatchAt(s, CHOOSE i \in at : \A x \in at : i <= x)

\* cleanUrl.split('/').filter(s => s.length > 0): its last element, <<>> when
\* there is none.
LastSegment(s) ==
  LET last == {k \in 1..Len(s) : s[k] # "/"}
  IN IF last = {} THEN <<>>
     ELSE LET e == CHOOSE k \in last : \A x \in last : x <= k
              slashes == {k \in 1..e : s[k] = "/"}
              b == IF slashes = {} THEN 0
                   ELSE CHOOSE k \in slashes : \A x \in slashes : x <= k
          IN SubSeq(s, b + 1, e)

\* url.replace(/\.git$/, '')
RemoveDotGit(s) == IF EndsWith(s, DotGit) THEN SubSeq(s, 1, Len(s) - Len(DotGit)) ELSE s
\* cleanUrl.replace(/^(https?|git|ssh):\/\//, '')
RemoveProtocol(s) ==
  IF StartsWith(s, HttpsProtocol) THEN Drop(s, Len(HttpsProtocol))
  ELSE IF StartsWith(s, HttpProtocol) THEN Drop(s, Len(HttpProtocol))
  ELSE IF StartsWith(s, GitProtocol) THEN Drop(s, Len(GitProtocol))
  ELSE IF StartsWith(s, SshProtocol) THEN Drop(s, Len(SshProtocol))
  ELSE s
\* cleanUrl.replace(/^git@/, '')
RemoveGitAt(s) == IF StartsWith(s, GitAt) THEN Drop(s, Len(GitAt)) ELSE s

\* extractRepoName from the cleaned URL on: the GitHub match, else the last
\* segment, else 'unknown-repository'.
RepoNameOf(cleanUrl) ==
  IF Strict(GithubMatch, cleanUrl) # <<>> THEN Strict(GithubMatch, cleanUrl)
  ELSE IF LastSegment(cleanUrl) # <<>> THEN LastSegment(cleanUrl)
  ELSE UnknownRepository

extractRepoName(url) ==
  IF url = <<>> THEN UnknownRepository
  ELSE Strict(RepoNameOf,
         Strict(RemoveGitAt, Strict(RemoveProtocol, Strict(RemoveDotGit, url))))

\* Mutant of importRepositoryArgs: the import scans unless skip-import is set.
importRepositoryArgs_SkipAware(inp) ==
  [url |-> normalizeGitHubUrl(inp.repositoryUrl),
   organizationSlug |-> inp.organizationSlug,
   name |-> Strict(extractRepoName, normalizeGitHubUrl(inp.repositoryUrl)),
   branch |-> inp.branch,
   provider |-> "github",
   autoScan |-> ~inp.skipImport,
   scanTypes |-> <<>>,
   isPrivate |-> FALSE]

importRepositoryArgs(inp) ==
  [url |-> normalizeGitHubUrl(inp.repositoryUrl),
   organizationSlug |-> inp.organizationSlug,
   name |-> Strict(extractRepoName, normalizeGitHubUrl(inp.repositoryUrl)),
   branch |-> inp.branch,
   provider |-> "github",
   autoScan |-> FALSE,
   scanTypes |-> <<>>,
   isPrivate |-> FALSE]

runScanArgs(inp, repoId) ==
  [repositoryId |-> repoId,
   organizationSlug |-> inp.organizationSlug,
   branch |-> inp.branch,
   scanTypes |-> <<>>,
   wait |-> inp.waitForCompletion,
   timeout |-> inp.timeout,
   pollInterval |-> inp.pollInterval,
   scanTrigger |-> "github_actions"]

(***************************************************************************)
(* The violation type breakdown of executeScan                             *)
(***************************************************************************)
Alphabet ==
  <<"a", "b", "c", "d", "e", "f", "g", "h", "i", "j", "k", "l", "m", "n", "o", "p", "q", "r", "s", "t", "u", "v", "w", "x", "y", "z">>
AlphabetUpperCase ==
  <<"A", "B", "C", "D", "E", "F", "G", "H", "I", "J", "K", "L", "M", "N", "O", "P", "Q", "R", "S", "T", "U", "V", "W", "X", "Y", "Z">>

\* String.prototype.toUpperCase and toLowerCase on a text of ASCII characters.
toUpperCaseChar(c) ==
  IF \E i \in DOMAIN Alphabet : Alphabet[i] = c
  THEN AlphabetUpperCase[CHOOSE i \in DOMAIN Alphabet : Alphabet[i] = c] ELSE c
toLowerCaseChar(c) ==
  IF \E i \in DOMAIN Alphabet : AlphabetUpperCase[i] = c
  THEN Alphabet[CHOOSE i \in DOMAIN Alphabet : AlphabetUpperCase[i] = c] ELSE c
toUpperCase(s) == [i \in DOMAIN s |-> toUpperCaseChar(s[i])]
toLowerCase(s) == [i \in DOMAIN s |-> toLowerCaseChar(s[i])]

\* A friendly name: one of the fixed labels (written without its emoji), or
\* the text built from the type.
Label(name) == [label |-> name, text |-> <<>>]
OwnName(text) == [label |-> "", text |-> text]

\* Mutant of getViolationTypeFriendlyName: the type is compared as given.
getViolationTypeFriendlyName_CaseSensitive(type) ==
  LET upper == type
  IN CASE upper = <<"S", "C", "A">> -> Label("Dependencies")
       [] upper \in {<<"S", "A", "S", "T">>, <<"A", "G", "E", "N", "T", "I", "C", "_", "S", "A", "S", "T">>} -> Label("Security Issues")
       [] upper \in {<<"S", "E", "C", "R", "E", "T">>, <<"S", "E", "C", "R", "E", "T", "S">>} -> Label("Secrets")
       [] upper = <<"I", "A", "C">> -> Label("Infrastructure")
       [] upper = <<"S", "B", "O", "M">> -> Label("Software Bill of Materials")
       [] OTHER -> OwnName(toUpperCase(SubSeq(type, 1, 1)) \o toLowerCase(Drop(type, 1)))

getViolationTypeFriendlyName(type) ==
  LET upper == toUpperCase(type)
  IN CASE upper = <<"S", "C", "A">> -> Label("Dependencies")
       [] upper \in {<<"S", "A", "S", "T">>, <<"A", "G", "E", "N", "T", "I", "C", "_", "S", "A", "S", "T">>} -> Label("Security Issues")
       [] upper \in {<<"S", "E", "C", "R", "E", "T">>, <<"S", "E", "C", "R", "E", "T", "S">>} -> Label("Secrets")
       [] upper = <<"I", "A", "C">> -> Label("Infrastructure")
       [] upper = <<"S", "B", "O", "M">> -> Label("Software Bill of Materials")
       [] OTHER -> OwnName(toUpperCase(SubSeq(type, 1, 1)) \o toLowerCase(Drop(type, 1)))

UnknownType == <<"U", "N", "K", "N", "O", "W", "N">>

\* typeBreakdown: the violations counted by type (violation.type || 'UNKNOWN'),
\* in the order the types first occur.
RECURSIVE typeBreakdown(_, _)
typeBreakdown(violations, acc) ==
  IF violations = <<>> THEN acc
  ELSE LET type == IF Head(violations) = <<>> THEN UnknownType ELSE Head(violations)
           at == {i \in DOMAIN acc : acc[i].type = type}
       IN typeBreakdown(Tail(violations),
            IF at = {} THEN Append(acc, [type |-> type, count |-> 1])
            ELSE [i \in DOMAIN acc |->
                    IF i \in at THEN [acc[i] EXCEPT !.count = @ + 1] ELSE acc[i]])

\* The lines logged under 'Violation Types': friendly name and count.
ViolationTypeLine(entry) ==
  [level |-> "info", message |-> "Violation Type",
   name |-> getViolationTypeFriendlyName(entry.type), count |-> entry.count]
ViolationTypeLines(b) ==
  IF b.ok /\ ~b.hasNull /\ b.violations # <<>>
  THEN LET counted == typeBreakdown(b.violations, <<>>)
       IN <<Log("info", "Violation Types")>>
          \o [i \in DOMAIN counted |-> ViolationTypeLine(counted[i])]
  ELSE <<>>

\* The answers of the export made for the breakdown: a failure, or the
\* violations' types; hasNull when the list of violations holds a null, whose
\* type cannot be read.
BreakdownResponses ==
  {[ok |-> FALSE, hasNull |-> FALSE, violations |-> <<>>],
   [ok |-> TRUE, hasNull |-> FALSE,
    violations |-> <<<<"S", "A", "S", "T">>, <<"s", "c", "a">>, <<"S", "A", "S", "T">>>>],
   [ok |-> TRUE, hasNull |-> TRUE, violations |-> <<<<"S", "A", "S", "T">>>>]}

\* The try block around the breakdown throws: the export failed, or
\* violation.type is read on a null.
breakdownThrows(b) == ~b.ok \/ b.hasNull

\* Mutant of fetchBreakdown: the catch block rethrows.
fetchBreakdown_Rethrows(b) == IF breakdownThrows(b) THEN ErrScanExecution ELSE NoError

\* The try/catch around the breakdown: the error that leaves it (the catch
\* block logs at debug level and does not rethrow).
fetchBreakdown(b) == NoError

\* 'Violations found: total (Critical: critical, High: high)'
ViolationsFoundLine(counts) ==
  [level |-> "info", message |-> "Violations found", total |-> counts.total,
   critical |-> counts.critical, high |-> counts.high]

\* if (scanResult.synchronous) { ... if (scanResult.results) { try { export json
FetchesBreakdown(r) == r.ok /\ r.synchronous /\ r.hasResults

breakdownArgs(id) == [scanId |-> id, format |-> "json", includeMetadata |-> TRUE]

exportArgs(inp, id) ==
  [scanId |-> id, format |-> inp.outputFormat, includeMetadata |-> TRUE,
   includeFixed |-> FALSE, includeSuppressed |-> FALSE]

\* Mutant of WritesFile: the file is written whatever the export answered.
WritesFile_Always(r, w) == TRUE

\* processResults reaches fs.writeFile after its export returned, and the
\* write succeeds.
WritesFile(r, w) == r.ok /\ w.ok

ZeroSummary == [total |-> 0, critical |-> 0, high |-> 0, medium |-> 0, low |-> 0]

\* Mutant of processResultsValue: the counts runScan reported are preferred.
processResultsValue_FromScan(inp, id, r) ==
  LET summary == IF resp.runScan.results # Null THEN resp.runScan.results
                 ELSE IF r.summary = Null THEN ZeroSummary ELSE r.summary
  IN [resultsFile |-> PathResolve(inp.outputFile),
      violationCount |-> summary.total,
      criticalCount |-> summary.critical,
      highCount |-> summary.high,
      mediumCount |-> summary.medium,
      lowCount |-> summary.low,
      securityScore |-> r.securityScore,
      scanDuration |-> r.scanDuration,
      scanUrl |-> generateScanUrl(inp, id)]

\* processResults: what it returns once the export and the write succeeded.
processResultsValue(inp, id, r) ==
  LET summary == IF r.summary = Null THEN ZeroSummary ELSE r.summary
  IN [resultsFile |-> PathResolve(inp.outputFile),
      violationCount |-> summary.total,
      criticalCount |-> summary.critical,
      highCount |-> summary.high,
      mediumCount |-> summary.medium,
      lowCount |-> summary.low,
      securityScore |-> r.securityScore,
      scanDuration |-> r.scanDuration,
      scanUrl |-> generateScanUrl(inp, id)]

\* Mutant of ShouldUploadSarif: the output format is not looked at.
ShouldUploadSarif_AnyFormat(inp, res) == inp.uploadSarif /\ res.resultsFile # ""
\* execute(), step 5: the condition of the SARIF upload.
ShouldUploadSarif(inp, res) ==
  inp.uploadSarif /\ inp.outputFormat = "sarif" /\ res.resultsFile # ""

ErrSarifSchema == "Invalid SARIF: Missing $schema property"
ErrSarifVersion == "Invalid SARIF: Missing version property"
ErrSarifRuns == "Invalid SARIF: Missing or invalid runs array"
ErrSarifParse == "Unexpected token in JSON"
ErrSarifRun == "Cannot read properties of null (reading 'results')"
WarnNoRuns == "SARIF file contains no runs"

\* Mutant of validateSarifFormat: the runs field is not looked at.
validateSarifFormat_NoRunsCheck(sarifData) ==
  IF sarifData.schema # "present" THEN ErrSarifSchema
  ELSE IF sarifData.version # "present" THEN ErrSarifVersion
  ELSE NoError

\* validateSarifFormat: the error it throws, NoError when it returns.
validateSarifFormat(sarifData) ==
  IF sarifData.schema # "present" THEN ErrSarifSchema
  ELSE IF sarifData.version # "present" THEN ErrSarifVersion
  ELSE IF sarifData.runs.kind # "list" THEN ErrSarifRuns
  ELSE IF \E i \in DOMAIN sarifData.runs.items : sarifData.runs.items[i] = "null"
    THEN ErrSarifRun   \* runs.reduce reads run.results
  ELSE NoError

\* SarifUploader.uploadSarif up to the call of the code scanning API: the
\* error thrown before the call, NoError when the call is made.
uploadSarifBeforeCall(doc) ==
  IF ~doc.json THEN ErrSarifParse   \* JSON.parse(sarifContent)
  ELSE validateSarifFormat(doc)

\* The warnings validateSarifFormat logs.
validateSarifWarnings(doc) ==
  IF doc.json /\ doc.schema = "present" /\ doc.version = "present"
     /\ doc.runs.kind = "list" /\ doc.runs.items = <<>>
  THEN <<Log("warning", WarnNoRuns)>> ELSE <<>>

\* Mutant of uploadSarifResults: the catch block rethrows.
uploadSarifResults_Rethrows(r) == IF r.ok THEN NoError ELSE "SARIF upload failed"

\* uploadSarifResults: the error that leaves it, given the uploader's answer
\* (the catch block logs a warning and does not rethrow).
uploadSarifResults(r) == NoError

\* Mutant of checkFailureConditions: a max-violations of 0 is a limit too.
checkFailureConditions_ZeroIsLimit(inp, res) ==
  IF inp.failOnCritical /\ res.criticalCount > 0 THEN ErrCritical
  ELSE IF inp.failOnHigh /\ res.highCount > 0 THEN ErrHigh
  ELSE IF JsGt(Num(res.violationCount), inp.maxViolations) THEN ErrMaxViolations
  ELSE NoError

\* Mutant of checkFailureConditions: the max-violations boundary fails.
checkFailureConditions_Inclusive(inp, res) ==
  IF inp.failOnCritical /\ res.criticalCount > 0 THEN ErrCritical
  ELSE IF inp.failOnHigh /\ res.highCount > 0 THEN ErrHigh
  ELSE IF JsGt(inp.maxViolations, Num(0))
          /\ ~JsLt(Num(res.violationCount), inp.maxViolations) THEN ErrMaxViolations
  ELSE NoError

\* checkFailureConditions: the error it throws, NoError when it returns.
checkFailureConditions(inp, res) ==
  IF inp.failOnCritical /\ res.criticalCount > 0 THEN ErrCritical
  ELSE IF inp.failOnHigh /\ res.highCount > 0 THEN ErrHigh
  ELSE IF JsGt(inp.maxViolations, Num(0))
          /\ JsGt(Num(res.violationCount), inp.maxViolations) THEN ErrMaxViolations
  ELSE NoError

\* return { ...results, repositoryId, scanId }
executeValue(res, repoId, id) ==
  [scanId |-> id, repositoryId |-> repoId,
   resultsFile |-> res.resultsFile,
   violationCount |-> res.violationCount,
   criticalCount |-> res.criticalCount,
   highCount |-> res.highCount,
   mediumCount |-> res.mediumCount,
   lowCount |-> res.lowCount,
   securityScore |-> res.securityScore,
   scanDuration |-> res.scanDuration,
   scanUrl |-> res.scanUrl]

(***************************************************************************)
(* setOutputs                                                              *)
(***************************************************************************)
Slot(name, value) == [name |-> name, value |-> value]

\* Mutant of setOutputs: no slot is set.
setOutputs_Nothing(o) == <<>>

\* Mutant of setOutputs: the score and the duration are emitted when truthy.
setOutputs_SkipsZero(o) ==
  <<Slot("scan-id", o.scanId),
    Slot("repository-id", o.repositoryId),
    Slot("violation-count", toString(o.violationCount)),
    Slot("critical-count", toString(o.criticalCount)),
    Slot("high-count", toString(o.highCount)),
    Slot("medium-count", toString(o.mediumCount)),
    Slot("low-count", toString(o.lowCount))>>
  \o (IF o.resultsFile # "" THEN <<Slot("results-file", o.resultsFile)>> ELSE <<>>)
  \o (IF o.securityScore \notin {<<>>, <<0>>}
      THEN <<Slot("security-score", toString(o.securityScore[1]))>> ELSE <<>>)
  \o (IF o.scanDuration \notin {<<>>, <<0>>}
      THEN <<Slot("scan-duration", toString(o.scanDuration[1]))>> ELSE <<>>)
  \o <<Slot("scan-url", o.scanUrl)>>

setOutputs(o) ==
  <<Slot("scan-id", o.scanId),
    Slot("repository-id", o.repositoryId),
    Slot("violation-count", toString(o.violationCount)),
    Slot("critical-count", toString(o.criticalCount)),
    Slot("high-count", toString(o.highCount)),
    Slot("medium-count", toString(o.mediumCount)),
    Slot("low-count", toString(o.lowCount))>>
  \o (IF o.resultsFile # "" THEN <<Slot("results-file", o.resultsFile)>> ELSE <<>>)
  \o (IF o.securityScore # <<>>
      THEN <<Slot("security-score", toString(o.securityScore[1]))>> ELSE <<>>)
  \o (IF o.scanDuration # <<>>
      THEN <<Slot("scan-duration", toString(o.scanDuration[1]))>> ELSE <<>>)
  \o <<Slot("scan-url", o.scanUrl)>>   \* the URL text is never empty

(***************************************************************************)
(* Inputs of a workflow run                                                *)
(***************************************************************************)
ServerUrl == <<"h", "t", "t", "p", "s", ":", "/", "/", "a", "p", "i", ".", "c", "o", "d", "e", "t", "h", "r", "e", "a", "t", ".", "c", "o", "m">>

BaseEnv ==
  [apiKey |-> "ct_key", serverUrl |-> ServerUrl, organizationSlug |-> "acme-org",
   scanTypes |-> "", repositoryUrl |-> <<>>, branch |-> "",
   waitForCompletion |-> "true", timeout |-> <<>>, pollInterval |-> <<>>,
   outputFormat |-> "", outputFile |-> "", uploadSarif |-> "true",
   failOnCritical |-> "false", failOnHigh |-> "false", maxViolations |-> <<>>,
   skipImport |-> "true", verbose |-> "false",
   githubToken |-> "ghs_token", GITHUB_TOKEN |-> ""]

FormatTexts == {"", "json", "sarif", "csv", "xml", "junit", "pdf"}

\* The inputs the pipeline is run on.
Envs ==
  {[BaseEnv EXCEPT !.apiKey = k, !.organizationSlug = o, !.serverUrl = u,
                   !.scanTypes = st, !.outputFormat = f, !.uploadSarif = up,
                   !.failOnCritical = fc, !.failOnHigh = fh,
                   !.maxViolations = mv, !.githubToken = tok] :
     k \in {"", "ct_key"}, o \in {"", "acme-org"}, u \in {<<>>, ServerUrl},
     st \in {"", "sast,sca"}, f \in FormatTexts, up \in {"true", "false"},
     fc \in {"true", "false"}, fh \in {"true", "false"},
     mv \in {<<>>, <<"2">>, <<"-", "1">>}, tok \in {"", "ghs_token"}}

Init ==
  /\ env \in Envs
  /\ pc = "parseInputs"
  /\ inputs = Null
  /\ repositoryId = ""
  /\ scanId = ""
  /\ results = Null
  /\ returned = Null
  /\ error = NoError
  /\ calls = <<>>
  /\ files = <<>>
  /\ outputSlots = <<>>
  /\ failed = <<>>
  /\ log = <<>>
  /\ resp = NoResponses
  /\ attempt = 1
  /\ previous = Null

(***************************************************************************)
(* run(): one action per stage                                             *)
(***************************************************************************)
\* const inputs = parseInputs(). run() has built its Logger before: the
\* verbose input is a valid boolean text.
ParseInputs ==
  /\ pc = "parseInputs"
  /\ LET r == parseInputs(env)
     IN IF r.error = NoError
        THEN /\ inputs' = r.value
             /\ pc' = "construct"
             /\ error' = error
        ELSE /\ inputs' = inputs
             /\ pc' = "catch"
             /\ error' = r.error
  /\ UNCHANGED <<env, repositoryId, scanId, results, returned, calls, files,
                 outputSlots, failed, log, resp, attempt, previous>>

\* const action = new CodeThreatAction(inputs, logger)
Construct ==
  /\ pc = "construct"
  /\ LET r == SarifUploaderConstructor(env)
     IN IF r.error = NoError
        THEN pc' = "validateAuthentication" /\ error' = error
        ELSE pc' = "catch" /\ error' = r.error
  /\ UNCHANGED <<env, inputs, repositoryId, scanId, results, returned, calls,
                 files, outputSlots, failed, log, resp, attempt, previous>>

\* Step 1: await this.validateAuthentication()
ValidateAuthentication ==
  /\ pc = "validateAuthentication"
  /\ \E r \in Answers("validateAuth", OkOrFail) :
       /\ calls' = Append(calls, Call("validateAuth", Null))
       /\ resp' = [resp EXCEPT !.validateAuth = r]
       /\ IF validateAuthentication(r) = NoError
          THEN /\ pc' = "setupRepository"
               /\ error' = error
               /\ log' = Append(log, Log("info", "Authentication: Valid"))
          ELSE /\ pc' = "catch"
               /\ error' = validateAuthentication(r)
               /\ log' = Append(log, Log("error", "Action execution failed"))
  /\ UNCHANGED <<env, inputs, repositoryId, scanId, results, returned, files,
                 outputSlots, failed, attempt, previous>>

\* Step 2: repositoryId = await this.setupRepository()
SetupRepository ==
  /\ pc = "setupRepository"
  /\ \E r \in Answers("importRepository", ImportResponses) :
       /\ calls' = Append(calls, Call("importRepository", importRepositoryArgs(inputs)))
       /\ resp' = [resp EXCEPT !.importRepository = r]
       /\ IF setupRepository(r) = NoError
          THEN /\ repositoryId' = r.id
               /\ pc' = "executeScan"
               /\ error' = error
               /\ log' = log
                    \o (IF r.alreadyExists
                        THEN <<Log("info", "Repository found in organization")>>
                             \o (IF inputs.skipImport
                                 THEN <<Log("debug", "Skip import enabled - using existing repository")>>
                                 ELSE <<>>)
                        ELSE <<Log("warning", "Repository was auto-imported")>>)
                    \o <<Log("info", "Repository Setup")>>
          ELSE /\ repositoryId' = repositoryId
               /\ pc' = "catch"
               /\ error' = setupRepository(r)
               /\ log' = Append(log, Log("error", "Action execution failed"))
  /\ UNCHANGED <<env, inputs, scanId, results, returned, files, outputSlots,
                 failed, attempt, previous>>

\* Step 3: scanId = await this.executeScan(repositoryId), the export made
\* for the breakdown answering from Breakdowns.
ExecuteScanWith(Breakdowns) ==
  /\ pc = "executeScan"
  /\ \E r \in Answers("runScan", ScanResponses) :
     \E b \in (IF FetchesBreakdown(r) THEN Answers("breakdown", Breakdowns) ELSE {Null}) :
       /\ calls' = calls
            \o <<Call("runScan", runScanArgs(inputs, repositoryId))>>
            \o (IF FetchesBreakdown(r)
                THEN <<Call("exportScanResults", breakdownArgs(r.id))>> ELSE <<>>)
       /\ resp' = [resp EXCEPT !.runScan = r, !.breakdown = b]
       /\ IF executeScan(r) = NoError /\ (FetchesBreakdown(r) => fetchBreakdown(b) = NoError)
          THEN /\ scanId' = r.id
               /\ pc' = "processResults"
               /\ error' = error
               /\ log' = log
                    \o (IF FetchesBreakdown(r)
                        THEN <<ViolationsFoundLine(r.results)>>
                             \o ViolationTypeLines(b)
                             \o (IF breakdownThrows(b)
                                 THEN <<Log("debug", "Could not fetch violation type breakdown")>>
                                 ELSE <<>>)
                        ELSE <<>>)
                    \o (IF ~r.synchronous
                        THEN <<Log("warning", "Consider setting wait-for-completion: true")>>
                        ELSE <<>>)
                    \o <<Log("info", "Security Scan")>>
          ELSE /\ scanId' = scanId
               /\ pc' = "catch"
               /\ error' = IF executeScan(r) # NoError THEN executeScan(r)
                            ELSE fetchBreakdown(b)
               /\ log' = Append(log, Log("error", "Action execution failed"))
  /\ UNCHANGED <<env, inputs, repositoryId, results, returned, files,
                 outputSlots, failed, attempt, previous>>

ExecuteScan == ExecuteScanWith(BreakdownResponses)

\* Step 4: const results = await this.processResults(scanId)
ProcessResults ==
  /\ pc = "processResults"
  /\ \E r \in Answers("exportScanResults", ExportResponses) :
     \E w \in (IF r.ok THEN Answers("writeFile", OkOrFail) ELSE {Null}) :
       /\ calls' = Append(calls, Call("exportScanResults", exportArgs(inputs, scanId)))
       /\ resp' = [resp EXCEPT !.exportScanResults = r, !.writeFile = w]
       /\ files' = IF WritesFile(r, w)   \* await fs.writeFile(outputPath, resultsData)
                   THEN Append(files, [path |-> PathResolve(inputs.outputFile),
                                       format |-> inputs.outputFormat,
                                       serialized |-> ~r.textual,
                                       document |-> r.document])
                   ELSE files
       /\ IF processResults(r, w) = NoError
          THEN LET res == processResultsValue(inputs, scanId, r)
               IN /\ results' = res
                  /\ pc' = IF ShouldUploadSarif(inputs, res)
                           THEN "uploadSarifResults" ELSE "checkFailureConditions"
                  /\ error' = error
                  /\ log' = Append(log, Log("info", "Results Processing"))
          ELSE /\ results' = results
               /\ pc' = "catch"
               /\ error' = processResults(r, w)
               /\ log' = Append(log, Log("error", "Action execution failed"))
  /\ UNCHANGED <<env, inputs, repositoryId, scanId, returned, outputSlots,
                 failed, attempt, previous>>

\* Step 5: await this.uploadSarifResults(results.resultsFile). The uploader
\* reads the file written in step 4, validates it and calls the code
\* scanning API; resp.uploadSarif is whether SarifUploader.uploadSarif returned.
UploadSarifResults ==
  /\ pc = "uploadSarifResults"
  /\ LET doc == files[Len(files)].document
         before == uploadSarifBeforeCall(doc)
     IN \E a \in (IF before = NoError THEN Answers("codeScanning", OkOrFail) ELSE {Null}) :
       LET r == [ok |-> before = NoError /\ a.ok]
           e == uploadSarifResults(r)
       IN /\ calls' = calls
               \o <<Call("uploadSarif", [sarifFilePath |-> results.resultsFile])>>
               \o (IF before = NoError
                   THEN <<Call("codeScanning.uploadSarif", [sarif |-> doc, tool_name |-> "CodeThreat"])>>
                   ELSE <<>>)
          /\ resp' = [resp EXCEPT !.uploadSarif = r, !.codeScanning = a]
          /\ IF e = NoError
             THEN /\ pc' = "checkFailureConditions"
                  /\ error' = error
                  /\ log' = log
                       \o validateSarifWarnings(doc)
                       \o (IF r.ok
                           THEN <<Log("info", "SARIF results uploaded successfully")>>
                           ELSE <<Log("warning", "SARIF upload failed"),
                                  Log("info", "Scan results are still available in the output file")>>)
                       \o <<Log("info", "SARIF Upload: Results uploaded to GitHub Security tab")>>
             ELSE /\ pc' = "catch"
                  /\ error' = e
                  /\ log' = Append(log, Log("error", "Action execution failed"))
  /\ UNCHANGED <<env, inputs, repositoryId, scanId, results, returned, files,
                 outputSlots, failed, attempt, previous>>

\* Step 6: this.checkFailureConditions(results); return {...}
CheckFailureConditions ==
  /\ pc = "checkFailureConditions"
  /\ LET e == checkFailureConditions(inputs, results)
     IN IF e = NoError
        THEN /\ returned' = executeValue(results, repositoryId, scanId)
             /\ pc' = "setOutputs"
             /\ error' = error
             /\ log' = log
        ELSE /\ returned' = returned
             /\ pc' = "catch"
             /\ error' = e
             /\ log' = Append(log, Log("error", "Action execution failed"))
  /\ UNCHANGED <<env, inputs, repositoryId, scanId, results, calls, files,
                 outputSlots, failed, resp, attempt, previous>>

\* setOutputs(outputs) and the success summary
SetOutputs ==
  /\ pc = "setOutputs"
  /\ outputSlots' = outputSlots \o setOutputs(returned)
  /\ log' = Append(log, Log("info", "CodeThreat Security Scan completed successfully"))
  /\ pc' = "done"
  /\ UNCHANGED <<env, inputs, repositoryId, scanId, results, returned, error,
                 calls, files, failed, resp, attempt, previous>>

\* catch (error) { ... core.setFailed(errorMessage) }
Catch ==
  /\ pc = "catch"
  /\ failed' = Append(failed, error)
  /\ log' = Append(log, Log("error", "CodeThreat Security Scan failed"))
  /\ pc' = "failed"
  /\ UNCHANGED <<env, inputs, repositoryId, scanId, results, returned, error,
                 calls, files, outputSlots, resp, attempt, previous>>

\* The workflow is run again on the same inputs, the collaborators answering
\* as before except the findings upload, which answers the other way.
Rerun ==
  /\ attempt = 1
  /\ pc \in {"done", "failed"}
  /\ resp.uploadSarif # Null
  /\ attempt' = 2
  /\ previous' = [returned |-> returned, outputSlots |-> outputSlots,
                  failed |-> failed, files |-> files]
  /\ pc' = "parseInputs"
  /\ inputs' = Null
  /\ repositoryId' = ""
  /\ scanId' = ""
  /\ results' = Null
  /\ returned' = Null
  /\ error' = NoError
  /\ calls' = <<>>
  /\ files' = <<>>
  /\ outputSlots' = <<>>
  /\ failed' = <<>>
  /\ log' = <<>>
  /\ UNCHANGED <<env, resp>>

Next ==
  \/ ParseInputs
  \/ Construct
  \/ ValidateAuthentication
  \/ SetupRepository
  \/ ExecuteScan
  \/ ProcessResults
  \/ UploadSarifResults
  \/ CheckFailureConditions
  \/ SetOutputs
  \/ Catch
  \/ Rerun

Spec == Init /\ [][Next]_vars

\* The steps of one run. Every step is a synchronous computation or awaits
\* one collaborator call; when each call returns, the step is taken.
RunStep ==
  \/ ParseInputs
  \/ Construct
  \/ ValidateAuthentication
  \/ SetupRepository
  \/ ExecuteScan
  \/ ProcessResults
  \/ UploadSarifResults
  \/ CheckFailureConditions
  \/ SetOutputs
  \/ Catch

\* The inputs the runs checked for termination are given.
FairEnvs ==
  {[BaseEnv EXCEPT !.apiKey = k, !.outputFormat = f, !.uploadSarif = up,
                   !.failOnCritical = fc, !.maxViolations = mv,
                   !.githubToken = tok] :
     k \in {"", "ct_key"}, f \in {"", "json"}, up \in {"true", "false"},
     fc \in {"true", "false"}, mv \in {<<>>, <<"2">>}, tok \in {"", "ghs_token"}}

InitFair ==
  /\ env \in FairEnvs
  /\ pc = "parseInputs"
  /\ inputs = Null
  /\ repositoryId = ""
  /\ scanId = ""
  /\ results = Null
  /\ returned = Null
  /\ error = NoError
  /\ calls = <<>>
  /\ files = <<>>
  /\ outputSlots = <<>>
  /\ failed = <<>>
  /\ log = <<>>
  /\ resp = NoResponses
  /\ attempt = 1
  /\ previous = Null

FairSpec == InitFair /\ [][Next]_vars /\ WF_vars(RunStep)

(***************************************************************************)
(* parseInputs on its own: run() up to the parsed inputs, over a wider     *)
(* range of input texts.                                                   *)
(***************************************************************************)
\* Integers supplied as the timeout and the poll interval: text and value.
TimeoutSamples ==
  {[text |-> <<"0">>, val |-> 0], [text |-> <<"-", "1">>, val |-> -1],
   [text |-> <<"5", "9">>, val |-> 59], [text |-> <<"6", "0">>, val |-> 60],
   [text |-> <<"3", "6", "0", "0">>, val |-> 3600], [text |-> <<"8", "6", "4", "0", "0">>, val |-> 86400],
   [text |-> <<"8", "6", "4", "0", "1">>, val |-> 86401]}
PollIntervalSamples ==
  {[text |-> <<"9">>, val |-> 9], [text |-> <<"1", "0">>, val |-> 10],
   [text |-> <<"3", "0">>, val |-> 30], [text |-> <<"6", "0">>, val |-> 60],
   [text |-> <<"6", "1">>, val |-> 61]}
\* Texts that are not integers: without a digit, and a numeric prefix
\* followed by other characters.
NonNumericTexts == {<<"a", "b", "c">>}
TimeoutPrefixTexts == {<<"1", "2", "0", "s">>, <<"5", "9", "s">>}
PollIntervalPrefixTexts == {<<"1", "5", "x">>, <<"6", "1", ".", "5">>}
TimeoutTexts ==
  {<<>>} \cup {t.text : t \in TimeoutSamples} \cup NonNumericTexts \cup TimeoutPrefixTexts
PollIntervalTexts ==
  {<<>>} \cup {t.text : t \in PollIntervalSamples} \cup NonNumericTexts
    \cup PollIntervalPrefixTexts

InputEnvs ==
  {[BaseEnv EXCEPT !.apiKey = k, !.organizationSlug = o, !.serverUrl = u,
                   !.scanTypes = st, !.timeout = t, !.pollInterval = p,
                   !.outputFormat = f, !.outputFile = of, !.uploadSarif = up] :
     k \in {"", "ct_key"}, o \in {"", "acme-org"}, u \in {<<>>, ServerUrl},
     st \in {"", "sast,sca"}, t \in TimeoutTexts, p \in PollIntervalTexts,
     f \in FormatTexts, of \in {"", "security-report.json"},
     up \in {"true", "FALSE", "yes"}}

InitInputs ==
  /\ env \in InputEnvs
  /\ pc = "parseInputs"
  /\ inputs = Null
  /\ repositoryId = ""
  /\ scanId = ""
  /\ results = Null
  /\ returned = Null
  /\ error = NoError
  /\ calls = <<>>
  /\ files = <<>>
  /\ outputSlots = <<>>
  /\ failed = <<>>
  /\ log = <<>>
  /\ resp = NoResponses
  /\ attempt = 1
  /\ previous = Null

NextInputs == ParseInputs \/ Catch

SpecInputs == InitInputs /\ [][NextInputs]_vars

(***************************************************************************)
(* The pipeline up to the repository setup, over a range of repository     *)
(* URLs.                                                                   *)
(***************************************************************************)
UrlPrefixes ==
  {<<>>,
   <<"g", "i", "t", ":", "/", "/">>,
   <<"h", "t", "t", "p", "s", ":", "/", "/">>,
   <<"h", "t", "t", "p", ":", "/", "/">>,
   <<"s", "s", "h", ":", "/", "/">>,
   <<"g", "i", "t", "@">>}
UrlHosts == {<<"g", "i", "t", "h", "u", "b", ".", "c", "o", "m">>,
             <<"g", "i", "t", "l", "a", "b", ".", "c", "o", "m">>}
UrlOwners == {<<"a", "c", "m", "e">>,
              <<"a", "c", ".", "m", "e">>}
UrlRepoNames ==
  {<<"w", "i", "d", "g", "e", "t">>,
   <<"m", "y", ".", "r", "e", "p", "o">>,
   <<"m", "y", "_", "r", "e", "p", "o">>,
   <<"w", "-", "1">>}
UrlSuffixes == {<<>>, DotGit, <<"/">>}

\* https://github.com/acme/widget.git
CanonicalWidgetUrl == HttpsGitHub \o ContextOwner \o <<"/">> \o ContextRepo \o DotGit

\* Supplied repository-url texts: none, protocol or user prefix, host, ':' or
\* '/', owner, repository name and ending combined, and texts that are
\* fragments of the patterns normalizeGitHubUrl looks for.
UrlTexts ==
  {<<>>}
  \cup {p \o h \o c \o o \o <<"/">> \o r \o x :
          p \in UrlPrefixes, h \in UrlHosts, c \in {<<":">>, <<"/">>},
          o \in UrlOwners, r \in UrlRepoNames, x \in UrlSuffixes}
  \cup {<<"g", "i", "t", ":", "/">>,
        <<"g", "i", "t", "@", "g", "i", "t", "h", "u", "b">>,
        <<"g", "i", "t", "h", "u", "b">>,
        <<"g", "i", "t">>,
        <<"g", "i", "t", "h", "u", "b", ".", "c", "o", "m">>,
        <<"h", "t", "t", "p", "s", ":", "/", "/">>,
        <<"h", "t", "t", "p", "s", ":", "/", "/", "g", "i", "t", "h", "u", "b", ".", "c", "o", "m">>,
        <<"h", "t", "t", "p", "s", ":", "/", "/", "e", "x", "a", "m", "p", "l", "e", ".", "c", "o", "m", "/">>,
        <<"x">>,
        <<"/", "/", "/">>}

UrlEnvs == {[BaseEnv EXCEPT !.repositoryUrl = u] : u \in UrlTexts}

InitUrls ==
  /\ env \in UrlEnvs
  /\ pc = "parseInputs"
  /\ inputs = Null
  /\ repositoryId = ""
  /\ scanId = ""
  /\ results = Null
  /\ returned = Null
  /\ error = NoError
  /\ calls = <<>>
  /\ files = <<>>
  /\ outputSlots = <<>>
  /\ failed = <<>>
  /\ log = <<>>
  /\ resp = NoResponses
  /\ attempt = 1
  /\ previous = Null

NextUrls ==
  \/ ParseInputs
  \/ Construct
  \/ ValidateAuthentication
  \/ SetupRepository
  \/ Catch

SpecUrls == InitUrls /\ [][NextUrls]_vars

(***************************************************************************)
(* The pipeline up to the scan, over a range of violation types in the     *)
(* breakdown.                                                              *)
(***************************************************************************)
\* Violation types as the export reports them, each with the friendly name
\* its bucket has.
TypeSamples ==
  {[text |-> <<"s", "c", "a">>, expected |-> Label("Dependencies")],
   [text |-> <<"S", "C", "A">>, expected |-> Label("Dependencies")],
   [text |-> <<"S", "c", "a">>, expected |-> Label("Dependencies")],
   [text |-> <<"s", "C", "A">>, expected |-> Label("Dependencies")],
   [text |-> <<"s", "C", "a">>, expected |-> Label("Dependencies")],
   [text |-> <<"s", "a", "s", "t">>, expected |-> Label("Security Issues")],
   [text |-> <<"S", "A", "S", "T">>, expected |-> Label("Security Issues")],
   [text |-> <<"S", "a", "s", "t">>, expected |-> Label("Security Issues")],
   [text |-> <<"s", "A", "S", "T">>, expected |-> Label("Security Issues")],
   [text |-> <<"s", "A", "s", "T">>, expected |-> Label("Security Issues")],
   [text |-> <<"a", "g", "e", "n", "t", "i", "c", "_", "s", "a", "s", "t">>, expected |-> Label("Security Issues")],
   [text |-> <<"A", "G", "E", "N", "T", "I", "C", "_", "S", "A", "S", "T">>, expected |-> Label("Security Issues")],
   [text |-> <<"A", "g", "e", "n", "t", "i", "c", "_", "s", "a", "s", "t">>, expected |-> Label("Security Issues")],
   [text |-> <<"a", "G", "E", "N", "T", "I", "C", "_", "S", "A", "S", "T">>, expected |-> Label("Security Issues")],
   [text |-> <<"a", "G", "e", "N", "t", "I", "c", "_", "s", "A", "s", "T">>, expected |-> Label("Security Issues")],
   [text |-> <<"s", "e", "c", "r", "e", "t">>, expected |-> Label("Secrets")],
   [text |-> <<"S", "E", "C", "R", "E", "T">>, expected |-> Label("Secrets")],
   [text |-> <<"S", "e", "c", "r", "e", "t">>, expected |-> Label("Secrets")],
   [text |-> <<"s", "E", "C", "R", "E", "T">>, expected |-> Label("Secrets")],
   [text |-> <<"s", "E", "c", "R", "e", "T">>, expected |-> Label("Secrets")],
   [text |-> <<"s", "e", "c", "r", "e", "t", "s">>, expected |-> Label("Secrets")],
   [text |-> <<"S", "E", "C", "R", "E", "T", "S">>, expected |-> Label("Secrets")],
   [text |-> <<"S", "e", "c", "r", "e", "t", "s">>, expected |-> Label("Secrets")],
   [text |-> <<"s", "E", "C", "R", "E", "T", "S">>, expected |-> Label("Secrets")],
   [text |-> <<"s", "E", "c", "R", "e", "T", "s">>, expected |-> Label("Secrets")],
   [text |-> <<"i", "a", "c">>, expected |-> Label("Infrastructure")],
   [text |-> <<"I", "A", "C">>, expected |-> Label("Infrastructure")],
   [text |-> <<"I", "a", "c">>, expected |-> Label("Infrastructure")],
   [text |-> <<"i", "A", "C">>, expected |-> Label("Infrastructure")],
   [text |-> <<"i", "A", "c">>, expected |-> Label("Infrastructure")],
   [text |-> <<"s", "b", "o", "m">>, expected |-> Label("Software Bill of Materials")],
   [text |-> <<"S", "B", "O", "M">>, expected |-> Label("Software Bill of Materials")],
   [text |-> <<"S", "b", "o", "m">>, expected |-> Label("Software Bill of Materials")],
   [text |-> <<"s", "B", "O", "M">>, expected |-> Label("Software Bill of Materials")],
   [text |-> <<"s", "B", "o", "M">>, expected |-> Label("Software Bill of Materials")],
   [text |-> <<"f", "o", "o">>, expected |-> OwnName(<<"F", "o", "o">>)],
   [text |-> <<"F", "O", "O">>, expected |-> OwnName(<<"F", "o", "o">>)],
   [text |-> <<"F", "o", "o">>, expected |-> OwnName(<<"F", "o", "o">>)],
   [text |-> <<"f", "O", "O">>, expected |-> OwnName(<<"F", "o", "o">>)],
   [text |-> <<"f", "O", "o">>, expected |-> OwnName(<<"F", "o", "o">>)],
   [text |-> <<"s", "a", "s", "t", "2">>, expected |-> OwnName(<<"S", "a", "s", "t", "2">>)],
   [text |-> <<"S", "A", "S", "T", "2">>, expected |-> OwnName(<<"S", "a", "s", "t", "2">>)],
   [text |-> <<"S", "a", "s", "t", "2">>, expected |-> OwnName(<<"S", "a", "s", "t", "2">>)],
   [text |-> <<"s", "A", "S", "T", "2">>, expected |-> OwnName(<<"S", "a", "s", "t", "2">>)],
   [text |-> <<"s", "A", "s", "T", "2">>, expected |-> OwnName(<<"S", "a", "s", "t", "2">>)],
   [text |-> <<>>, expected |-> OwnName(<<"U", "n", "k", "n", "o", "w", "n">>)],
   [text |-> <<"x">>, expected |-> OwnName(<<"X">>)]}
TypeTexts == {t.text : t \in TypeSamples}

TypeBreakdownResponses ==
  {[ok |-> FALSE, hasNull |-> FALSE, violations |-> <<>>],
   [ok |-> TRUE, hasNull |-> FALSE, violations |-> <<>>]}
  \cup {[ok |-> TRUE, hasNull |-> FALSE, violations |-> <<t>>] : t \in TypeTexts}
  \cup {[ok |-> TRUE, hasNull |-> FALSE, violations |-> <<t, u>>] :
           t \in TypeTexts, u \in TypeTexts}
  \cup {[ok |-> TRUE, hasNull |-> FALSE, violations |-> <<t, <<"i", "a", "c">>, t>>] :
           t \in TypeTexts}

InitTypes ==
  /\ env \in {BaseEnv, [BaseEnv EXCEPT !.apiKey = ""]}
  /\ pc = "parseInputs"
  /\ inputs = Null
  /\ repositoryId = ""
  /\ scanId = ""
  /\ results = Null
  /\ returned = Null
  /\ error = NoError
  /\ calls = <<>>
  /\ files = <<>>
  /\ outputSlots = <<>>
  /\ failed = <<>>
  /\ log = <<>>
  /\ resp = NoResponses
  /\ attempt = 1
  /\ previous = Null

ExecuteScanTypes == ExecuteScanWith(TypeBreakdownResponses)

NextTypes ==
  \/ ParseInputs
  \/ Construct
  \/ ValidateAuthentication
  \/ SetupRepository
  \/ ExecuteScanTypes
  \/ Catch

SpecTypes == InitTypes /\ [][NextTypes]_vars

(***************************************************************************)
(* generateScanUrl over the forms of the server URL.                       *)
(***************************************************************************)
\* Server URLs: the text supplied and the base of the dashboard URL the
\* documentation gives for it.
ServerUrlSamples ==
  {[text |-> <<"h", "t", "t", "p", "s", ":", "/", "/", "a", "p", "i", ".", "c", "o", "d", "e", "t", "h", "r", "e", "a", "t", ".", "c", "o", "m">>,
    expected |-> <<"h", "t", "t", "p", "s", ":", "/", "/", "a", "p", "p", ".", "c", "o", "d", "e", "t", "h", "r", "e", "a", "t", ".", "c", "o", "m">>],
   [text |-> <<"h", "t", "t", "p", "s", ":", "/", "/", "a", "p", "i", ".", "c", "o", "d", "e", "t", "h", "r", "e", "a", "t", ".", "c", "o", "m", "/", "a", "p", "i">>,
    expected |-> <<"h", "t", "t", "p", "s", ":", "/", "/", "a", "p", "p", ".", "c", "o", "d", "e", "t", "h", "r", "e", "a", "t", ".", "c", "o", "m">>],
   [text |-> <<"h", "t", "t", "p", "s", ":", "/", "/", "a", "p", "i", ".", "a", "c", "m", "e", ".", "i", "o">>,
    expected |-> <<"h", "t", "t", "p", "s", ":", "/", "/", "a", "p", "p", ".", "a", "c", "m", "e", ".", "i", "o">>],
   [text |-> <<"h", "t", "t", "p", "s", ":", "/", "/", "c", "t", ".", "a", "c", "m", "e", ".", "i", "o", "/", "a", "p", "i">>,
    expected |-> <<"h", "t", "t", "p", "s", ":", "/", "/", "c", "t", ".", "a", "c", "m", "e", ".", "i", "o">>],
   [text |-> <<"h", "t", "t", "p", "s", ":", "/", "/", "c", "t", ".", "a", "c", "m", "e", ".", "i", "o">>,
    expected |-> <<"h", "t", "t", "p", "s", ":", "/", "/", "c", "t", ".", "a", "c", "m", "e", ".", "i", "o">>],
   [text |-> <<"h", "t", "t", "p", "s", ":", "/", "/", "s", "c", "a", "n", ".", "a", "c", "m", "e", ".", "i", "o", ":", "8", "4", "4", "3">>,
    expected |-> <<"h", "t", "t", "p", "s", ":", "/", "/", "s", "c", "a", "n", ".", "a", "c", "m", "e", ".", "i", "o", ":", "8", "4", "4", "3">>]}

ScanUrlEnvs ==
  {[BaseEnv EXCEPT !.serverUrl = u.text, !.organizationSlug = o,
                   !.outputFormat = "json", !.failOnHigh = fh] :
     u \in ServerUrlSamples, o \in {"acme-org", "other"}, fh \in {"true", "false"}}

InitScanUrls ==
  /\ env \in ScanUrlEnvs
  /\ pc = "parseInputs"
  /\ inputs = Null
  /\ repositoryId = ""
  /\ scanId = ""
  /\ results = Null
  /\ returned = Null
  /\ error = NoError
  /\ calls = <<>>
  /\ files = <<>>
  /\ outputSlots = <<>>
  /\ failed = <<>>
  /\ log = <<>>
  /\ resp = NoResponses
  /\ attempt = 1
  /\ previous = Null

NextScanUrls ==
  \/ ParseInputs
  \/ Construct
  \/ ValidateAuthentication
  \/ SetupRepository
  \/ ExecuteScan
  \/ ProcessResults
  \/ CheckFailureConditions
  \/ SetOutputs
  \/ Catch

SpecScanUrls == InitScanUrls /\ [][NextScanUrls]_vars

(***************************************************************************)
(* Two runs that differ only in the skip-import input.                     *)
(***************************************************************************)
SkipImportEnvs ==
  {[BaseEnv EXCEPT !.skipImport = s, !.apiKey = k, !.outputFormat = f,
                   !.failOnHigh = fh] :
     s \in {"true", "false"}, k \in {"", "ct_key"}, f \in {"json", "csv"},
     fh \in {"true", "false"}}

InitSkipImport ==
  /\ env \in SkipImportEnvs
  /\ pc = "parseInputs"
  /\ inputs = Null
  /\ repositoryId = ""
  /\ scanId = ""
  /\ results = Null
  /\ returned = Null
  /\ error = NoError
  /\ calls = <<>>
  /\ files = <<>>
  /\ outputSlots = <<>>
  /\ failed = <<>>
  /\ log = <<>>
  /\ resp = NoResponses
  /\ attempt = 1
  /\ previous = Null

\* The workflow is run again with the skip-import input the other way, every
\* other input and every collaborator's answer as before.
RerunSkipImport ==
  /\ attempt = 1
  /\ pc \in {"done", "failed"}
  /\ attempt' = 2
  /\ env' = [env EXCEPT !.skipImport = IF @ = "true" THEN "false" ELSE "true"]
  /\ previous' = [returned |-> returned, outputSlots |-> outputSlots,
                  failed |-> failed, files |-> files, calls |-> calls]
  /\ pc' = "parseInputs"
  /\ inputs' = Null
  /\ repositoryId' = ""
  /\ scanId' = ""
  /\ results' = Null
  /\ returned' = Null
  /\ error' = NoError
  /\ calls' = <<>>
  /\ files' = <<>>
  /\ outputSlots' = <<>>
  /\ failed' = <<>>
  /\ log' = <<>>
  /\ UNCHANGED resp

NextSkipImport ==
  \/ ParseInputs
  \/ Construct
  \/ ValidateAuthentication
  \/ SetupRepository
  \/ ExecuteScan
  \/ ProcessResults
  \/ CheckFailureConditions
  \/ SetOutputs
  \/ Catch
  \/ RerunSkipImport

SpecSkipImport == InitSkipImport /\ [][NextSkipImport]_vars

(***************************************************************************)
(* Properties                                                              *)
(***************************************************************************)
Ops == [i \in DOMAIN calls |-> calls[i].op]
Count(op) == Cardinality({i \in DOMAIN calls : calls[i].op = op})
Called(op) == \E i \in DOMAIN calls : calls[i].op = op
\* The export of step 4 passes includeFixed; the breakdown export does not.
IsBreakdown(c) == c.op = "exportScanResults" /\ "includeFixed" \notin DOMAIN c.args
StageOf(c) ==
  CASE c.op = "validateAuth" -> 1
    [] c.op = "importRepository" -> 2
    [] c.op = "runScan" -> 3
    [] c.op = "exportScanResults" -> IF IsBreakdown(c) THEN 3 ELSE 4
    [] c.op = "uploadSarif" -> 5
    [] c.op = "codeScanning.uploadSarif" -> 5
StageCalled(k) == \E i \in DOMAIN calls : StageOf(calls[i]) = k

ParseErrors ==
  {ErrApiKey, ErrOrganization, ErrServerUrl, ErrBoolean, ErrTimeout,
   ErrPollInterval, ErrOutputFormat}
StageErrors ==
  {ErrAuthentication, ErrRepositorySetup, ErrScanExecution, ErrResultsProcessing}
ThresholdErrors == {ErrCritical, ErrHigh, ErrMaxViolations}
Terminal == pc \in {"done", "failed"}
\* checkFailureConditions has run in this run.
ThresholdChecked == returned # Null \/ error \in ThresholdErrors

\* C1: the stages run in the fixed order, each of stages 1-4 only after the
\* previous one succeeded; once one of stages 1-4 fails no later remote
\* operation, file write or threshold check happens and the error travels to
\* the caller of execute.
C1_StagesInOrder ==
  /\ \A i, j \in DOMAIN calls : i < j => StageOf(calls[i]) <= StageOf(calls[j])
  /\ \A k \in 2..5 : StageCalled(k) => StageCalled(k - 1)
  /\ StageCalled(2) => resp.validateAuth.ok
  /\ StageCalled(3) => resp.importRepository.ok
  /\ StageCalled(4) => resp.runScan.ok
  /\ StageCalled(5) => resp.exportScanResults.ok /\ resp.writeFile.ok /\ Len(files) = 1
  /\ ThresholdChecked =>
       /\ StageCalled(4) /\ resp.exportScanResults.ok /\ resp.writeFile.ok
       /\ Len(files) = 1
  /\ error = ErrAuthentication => Ops = <<"validateAuth">>
  /\ error = ErrRepositorySetup => Ops = <<"validateAuth", "importRepository">>
  /\ error = ErrScanExecution => Ops = <<"validateAuth", "importRepository", "runScan">>
  /\ error = ErrResultsProcessing =>
       /\ ~StageCalled(5)
       /\ Count("exportScanResults") = IF FetchesBreakdown(resp.runScan) THEN 2 ELSE 1
  /\ error \in StageErrors =>
       /\ pc \in {"catch", "failed"}
       /\ files = <<>> /\ returned = Null /\ outputSlots = <<>>
       /\ pc = "failed" => failed = <<error>>

\* A run whose export stage failed after three successful stages.
C1_Witness ==
  /\ pc = "failed" /\ error = ErrResultsProcessing
  /\ Ops = <<"validateAuth", "importRepository", "runScan", "exportScanResults">>

\* C2 (as claimed): setFailed is called, with the error's message, exactly
\* when configuration resolution, authentication, repository resolution, scan
\* execution, export or the threshold check failed.
C2_SetFailedIffListedFailure ==
  Terminal =>
    /\ failed # <<>> <=> error \in ParseErrors \cup StageErrors \cup ThresholdErrors
    /\ failed # <<>> => failed = <<error>>

Logged(level, message) == \E i \in DOMAIN log : log[i] = Log(level, message)

\* C3: two runs on the same inputs and the same answers of the scan client,
\* one with the findings upload succeeding and one with it throwing, return
\* the same outputs and end with the same status; a failed upload is logged
\* as a warning and not rethrown.
C3_UploadOutcomeIrrelevant ==
  /\ attempt = 2 /\ Terminal =>
       /\ returned = previous.returned
       /\ outputSlots = previous.outputSlots
       /\ failed = previous.failed
       /\ files = previous.files
  /\ Called("uploadSarif") /\ ~resp.uploadSarif.ok =>
       /\ Logged("warning", "SARIF upload failed")
       /\ error \in {NoError} \cup ThresholdErrors

\* The re-run ended in success with the upload failing, the first run having
\* uploaded.
C3_Witness ==
  /\ attempt = 2 /\ pc = "done"
  /\ Called("uploadSarif") /\ ~resp.uploadSarif.ok
  /\ previous.outputSlots # <<>>

C5_OutputsOnlyAfterSuccess ==
  /\ (returned # Null \/ outputSlots # <<>>) =>
       /\ Count("importRepository") = 1 /\ resp.importRepository.ok
       /\ Count("runScan") = 1 /\ resp.runScan.ok
       /\ resp.exportScanResults.ok /\ resp.writeFile.ok /\ Len(files) = 1
       /\ returned # Null
       /\ returned.repositoryId = resp.importRepository.id
       /\ returned.scanId = resp.runScan.id
       /\ error = NoError
  /\ outputSlots # <<>> => pc = "done"
  /\ (error # NoError \/ failed # <<>>) => outputSlots = <<>> /\ returned = Null

\* A successful run has set its output slots.
C5_Witness ==
  /\ pc = "done" /\ outputSlots = setOutputs(returned)
  /\ Count("importRepository") = 1 /\ Count("runScan") = 1

ExpectedDefaultFile(f) ==
  CASE f = "json" -> "codethreat-results.json"
    [] f = "sarif" -> "codethreat-results.sarif"
    [] f = "csv" -> "codethreat-results.csv"
    [] f = "xml" -> "codethreat-results.xml"
    [] f = "junit" -> "codethreat-results.xml"

\* C8: the returned output format is one of json, sarif, csv, xml, junit, is
\* sarif when none is supplied and is the supplied one otherwise; any other
\* format is an error; the output file is the supplied one, or
\* codethreat-results.xml for junit and codethreat-results.<format> otherwise.
C8_FormatAndFile ==
  pc # "parseInputs" =>
    /\ inputs # Null =>
         /\ inputs.outputFormat \in {"json", "sarif", "csv", "xml", "junit"}
         /\ inputs.outputFormat =
              (IF env.outputFormat = "" THEN "sarif" ELSE env.outputFormat)
         /\ inputs.outputFile =
              (IF env.outputFile = "" THEN ExpectedDefaultFile(inputs.outputFormat)
               ELSE env.outputFile)
    /\ env.outputFormat \notin {"", "json", "sarif", "csv", "xml", "junit"} =>
         inputs = Null /\ error \in ParseErrors
    /\ error = ErrOutputFormat =>
         env.outputFormat \notin {"", "json", "sarif", "csv", "xml", "junit"}

\* junit with no output file supplied.
C8_Witness ==
  /\ env.outputFormat = "junit" /\ env.outputFile = ""
  /\ inputs # Null /\ inputs.outputFile = "codethreat-results.xml"

PastUpload ==
  /\ results # Null
  /\ pc \in {"checkFailureConditions", "setOutputs", "done", "catch", "failed"}

\* C10: uploadSarif is invoked exactly when stages 1-4 succeeded, upload-sarif
\* is set, the format is sarif and a results file was produced; at most once,
\* after the file was written, never for json, csv, xml or junit.
C10_UploadIff ==
  /\ Count("uploadSarif") <= 1
  /\ Called("uploadSarif") =>
       /\ resp.validateAuth.ok /\ resp.importRepository.ok /\ resp.runScan.ok
       /\ resp.exportScanResults.ok /\ resp.writeFile.ok
       /\ inputs.uploadSarif /\ inputs.outputFormat = "sarif"
       /\ env.uploadSarif \in BooleanTrue /\ env.outputFormat \in {"", "sarif"}
       /\ results # Null /\ results.resultsFile # ""
       /\ Len(files) = 1
       /\ \E i \in DOMAIN calls :
            /\ calls[i] = Call("uploadSarif", [sarifFilePath |-> files[1].path])
            /\ \A j \in DOMAIN calls : j > i => calls[j].op = "codeScanning.uploadSarif"
  /\ (PastUpload /\ inputs.uploadSarif /\ inputs.outputFormat = "sarif"
      /\ results.resultsFile # "") => Called("uploadSarif")

\* A successful run with the default format has uploaded.
C10_Witness ==
  /\ pc = "done" /\ env.outputFormat = "" /\ Count("uploadSarif") = 1

\* C11: the code scanning API is called only with a document that has a
\* $schema, a version and a runs list; a document missing $schema or version,
\* or whose runs is absent or not a list, makes uploadSarif throw without any
\* call of the API; a document with an empty runs list is uploaded, with a
\* warning.
C11_ValidatedBeforeUpload ==
  /\ \A i \in DOMAIN calls :
       calls[i].op = "codeScanning.uploadSarif" =>
         /\ calls[i].args.sarif = files[1].document
         /\ calls[i].args.sarif.schema # "absent"
         /\ calls[i].args.sarif.version # "absent"
         /\ calls[i].args.sarif.runs.kind = "list"
         /\ i > 1 /\ calls[i - 1].op = "uploadSarif"
  /\ Count("codeScanning.uploadSarif") <= 1
  /\ Called("uploadSarif") =>
       LET d == files[1].document
       IN /\ (d.schema = "absent" \/ d.version = "absent" \/ d.runs.kind # "list") =>
               /\ ~Called("codeScanning.uploadSarif")
               /\ ~resp.uploadSarif.ok
               /\ Logged("warning", "SARIF upload failed")
          /\ d = Document(TRUE, "present", "present", RunsList(<<>>)) =>
               /\ Called("codeScanning.uploadSarif")
               /\ Logged("warning", WarnNoRuns)

\* The uploader was given a document whose runs is not a list.
C11_Witness ==
  /\ Called("uploadSarif") /\ ~Called("codeScanning.uploadSarif")
  /\ files[1].document = Document(TRUE, "present", "present", RunsNotList)
  /\ pc = "done"

\* The importRepository calls made so far.
ImportCalls == {i \in DOMAIN calls : calls[i].op = "importRepository"}

\* C12: normalizeGitHubUrl is idempotent: normalizing the URL it returned
\* gives the same URL; git@github.com:acme/widget.git,
\* git://github.com/acme/widget.git and github.com/acme/widget each become
\* https://github.com/acme/widget.git.
C12_NormalizeIdempotent ==
  \A i \in ImportCalls :
    LET u == calls[i].args.url
    IN /\ u = normalizeGitHubUrl(inputs.repositoryUrl)
       /\ normalizeGitHubUrl(u) = u
       /\ env.repositoryUrl \in
            {<<"g", "i", "t", "@", "g", "i", "t", "h", "u", "b", ".", "c", "o", "m", ":", "a", "c", "m", "e", "/", "w", "i", "d", "g", "e", "t", ".", "g", "i", "t">>,
             <<"g", "i", "t", ":", "/", "/", "g", "i", "t", "h", "u", "b", ".", "c", "o", "m", "/", "a", "c", "m", "e", "/", "w", "i", "d", "g", "e", "t", ".", "g", "i", "t">>,
             <<"g", "i", "t", "h", "u", "b", ".", "c", "o", "m", "/", "a", "c", "m", "e", "/", "w", "i", "d", "g", "e", "t">>} => u = CanonicalWidgetUrl

\* The SSH form of the URL was supplied and the repository looked up.
C12_Witness ==
  /\ env.repositoryUrl = <<"g", "i", "t", "@", "g", "i", "t", "h", "u", "b", ".", "c", "o", "m", ":", "a", "c", "m", "e", "/", "w", "i", "d", "g", "e", "t", ".", "g", "i", "t">>
  /\ pc = "executeScan"
  /\ \E i \in ImportCalls : calls[i].args.url = CanonicalWidgetUrl

\* C13 (as claimed): for every configured repository URL the URL passed to
\* importRepository is canonical: an http:// or git:// URL, an SSH-style
\* git@host:owner/repo URL and a bare host/owner/repo path, on any host, each
\* become https://host/owner/repo.git.
C13_CanonicalUrl ==
  \A i \in ImportCalls :
    \A h \in UrlHosts, o \in UrlOwners, r \in UrlRepoNames, x \in {<<>>, DotGit} :
      LET path == o \o <<"/">> \o r \o x
      IN env.repositoryUrl \in {HttpProtocol \o h \o <<"/">> \o path,
                                GitProtocol \o h \o <<"/">> \o path,
                                GitAt \o h \o <<":">> \o path,
                                h \o <<"/">> \o path} =>
           /\ StartsWith(calls[i].args.url, HttpsProtocol)
           /\ EndsWith(calls[i].args.url, DotGit)
           /\ calls[i].args.url =
                HttpsProtocol \o h \o <<"/">> \o o \o <<"/">> \o r \o DotGit

\* C14 (as claimed): for https://github.com/<owner>/<repo>.git the name
\* passed to importRepository is <repo>, whatever the owner and the name; for
\* a URL without a non-empty segment it is unknown-repository; for an
\* https URL of another host it is the last segment without .git.
C14_RepoName ==
  \A i \in ImportCalls :
    LET u == calls[i].args.url
        name == calls[i].args.name
    IN /\ \A o \in UrlOwners, r \in UrlRepoNames :
            u = HttpsGitHub \o o \o <<"/">> \o r \o DotGit => name = r
       /\ \A o \in UrlOwners, r \in UrlRepoNames :
            u = <<"h", "t", "t", "p", "s", ":", "/", "/", "g", "i", "t", "l", "a", "b", ".", "c", "o", "m", "/">> \o o \o <<"/">> \o r \o DotGit => name = r
       /\ u \in {HttpsProtocol \o DotGit, <<"/", "/", "/">> \o DotGit} =>
            name = UnknownRepository

\* The lines of the violation type breakdown logged so far.
TypeLines == SelectSeq(log, LAMBDA l : l.message = "Violation Type")
\* The place in the breakdown of the type of the i-th violation: types are
\* listed in the order they first occur.
TypeLineOf(vs, i) ==
  LET first == CHOOSE j \in 1..i : vs[j] = vs[i] /\ \A x \in 1..i : vs[x] = vs[i] => j <= x
  IN Cardinality({vs[j] : j \in 1..first})

\* C15: getViolationTypeFriendlyName is case-insensitive: two types that
\* differ only in case get the same name; sca is Dependencies, sast and
\* agentic_sast Security Issues, secret and secrets Secrets, iac
\* Infrastructure, sbom Software Bill of Materials, and any other type its
\* own text with the first character upper-cased and the rest lower-cased.
C15_FriendlyNameCaseInsensitive ==
  (resp.breakdown # Null /\ resp.breakdown.ok /\ pc \notin {"executeScan"}) =>
    LET vs == resp.breakdown.violations
    IN /\ Len(TypeLines) = Cardinality({vs[i] : i \in DOMAIN vs})
       /\ \A i \in DOMAIN vs :
            \A t \in TypeSamples :
              vs[i] = t.text => TypeLines[TypeLineOf(vs, i)].name = t.expected
       /\ \A i, j \in DOMAIN vs :
            toLowerCase(vs[i]) = toLowerCase(vs[j]) =>
              TypeLines[TypeLineOf(vs, i)].name = TypeLines[TypeLineOf(vs, j)].name

\* Two casings of agentic_sast were reported and named alike.
C15_Witness ==
  /\ pc = "processResults" /\ resp.breakdown # Null /\ resp.breakdown.ok
  /\ resp.breakdown.violations = <<<<"A", "g", "e", "n", "t", "i", "c", "_", "s", "a", "s", "t">>, <<"A", "G", "E", "N", "T", "I", "C", "_", "S", "A", "S", "T">>>>
  /\ Len(TypeLines) = 2
  /\ TypeLines[1].name = Label("Security Issues")
  /\ TypeLines[2].name = Label("Security Issues")

\* The summary of the end-to-end scenario.
ScenarioSummary == [total |-> 5, critical |-> 0, high |-> 1, medium |-> 2, low |-> 2]

\* The end-to-end scenario, once the export of this run has answered: valid
\* credentials, the repository already known, wait-for-completion on, no
\* threshold set, a synchronous scan and the summary 5/0/1/2/2 exported and
\* written.
Scenario ==
  /\ inputs # Null /\ StageCalled(4)
  /\ GitHubToken(env) # ""
  /\ inputs.waitForCompletion /\ ~inputs.failOnCritical /\ ~inputs.failOnHigh
  /\ inputs.maxViolations = Num(0)
  /\ resp.validateAuth.ok
  /\ resp.importRepository.ok /\ resp.importRepository.alreadyExists
  /\ resp.runScan.ok /\ resp.runScan.synchronous
  /\ resp.exportScanResults.ok /\ resp.exportScanResults.summary = ScenarioSummary
  /\ resp.writeFile.ok

\* What holds of the scenario at every step of the run.
ScenarioOutcome ==
  Scenario =>
    /\ pc \in {"uploadSarifResults", "checkFailureConditions", "setOutputs", "done"}
    /\ error = NoError /\ failed = <<>>
    /\ files = <<[path |-> PathResolve(inputs.outputFile),
                  format |-> inputs.outputFormat,
                  serialized |-> ~resp.exportScanResults.textual,
                  document |-> resp.exportScanResults.document]>>
    /\ results.resultsFile = files[1].path
    /\ results.violationCount = 5 /\ results.criticalCount = 0
    /\ results.highCount = 1 /\ results.mediumCount = 2 /\ results.lowCount = 2
    /\ pc \in {"setOutputs", "done"} =>
         /\ returned.violationCount = 5 /\ returned.criticalCount = 0
         /\ returned.highCount = 1 /\ returned.mediumCount = 2
         /\ returned.lowCount = 2
         /\ returned.resultsFile = files[1].path
         /\ returned.repositoryId = resp.importRepository.id
         /\ returned.scanId = resp.runScan.id
    /\ pc = "done" =>
         /\ Slot("violation-count", <<"5">>) \in {outputSlots[i] : i \in DOMAIN outputSlots}
         /\ Slot("high-count", <<"1">>) \in {outputSlots[i] : i \in DOMAIN outputSlots}

\* C16: in the end-to-end scenario the run reaches success: the results file
\* is written, the outputs have violationCount 5, criticalCount 0, highCount
\* 1, mediumCount 2 and lowCount 2, no error is thrown and setFailed is not
\* called.
C16_EndToEnd ==
  /\ []ScenarioOutcome
  /\ Scenario ~> (Scenario /\ pc = "done")

\* The scenario has run to its end.
C16_Witness ==
  /\ Scenario /\ pc = "done" /\ attempt = 1
  /\ returned.violationCount = 5 /\ failed = <<>>

\* C17: validateAuth, importRepository and runScan are each invoked at most
\* once in a run and exportScanResults at most twice; a run that has ended
\* has either emitted its outputs or been marked failed, never both; and,
\* every call returning, every run ends.
C17_CallsBounded ==
  /\ Count("validateAuth") <= 1
  /\ Count("importRepository") <= 1
  /\ Count("runScan") <= 1
  /\ Count("exportScanResults") <= 2
  /\ Cardinality({i \in DOMAIN calls : IsBreakdown(calls[i])}) <= 1
  /\ Terminal =>
       \/ pc = "done" /\ outputSlots # <<>> /\ failed = <<>>
       \/ pc = "failed" /\ outputSlots = <<>> /\ Len(failed) = 1
  /\ ~Terminal => outputSlots = <<>> /\ failed = <<>>

C17_NoRetryAndTermination ==
  /\ []C17_CallsBounded
  /\ (pc = "parseInputs") ~> Terminal

\* A run with both exports made has ended.
C17_Witness ==
  /\ pc = "done" /\ Count("exportScanResults") = 2
  /\ Count("validateAuth") = 1 /\ Count("importRepository") = 1 /\ Count("runScan") = 1

SlotCount(name) == Cardinality({i \in DOMAIN outputSlots : outputSlots[i].name = name})
SlotValue(name) == outputSlots[CHOOSE i \in DOMAIN outputSlots : outputSlots[i].name = name].value
MandatorySlots ==
  {"scan-id", "repository-id", "violation-count", "critical-count",
   "high-count", "medium-count", "low-count"}
OptionalSlots == {"results-file", "security-score", "scan-duration", "scan-url"}

\* C18: for the outputs execute() returns, setOutputs completes, sets each of
\* the seven mandatory slots once, and sets each optional slot exactly when
\* its field is present: a score or duration of 0 is emitted, an absent one
\* is not.
C18_SetOutputsSlots ==
  /\ pc = "setOutputs" => returned # Null /\ outputSlots = <<>>
  /\ pc = "done" =>
       /\ error = NoError /\ failed = <<>>
       /\ \A i \in DOMAIN outputSlots :
            outputSlots[i].name \in MandatorySlots \cup OptionalSlots
       /\ \A n \in MandatorySlots : SlotCount(n) = 1
       /\ \A n \in OptionalSlots : SlotCount(n) <= 1
       /\ SlotValue("scan-id") = returned.scanId
       /\ SlotValue("repository-id") = returned.repositoryId
       /\ SlotValue("violation-count") = toString(returned.violationCount)
       /\ SlotValue("critical-count") = toString(returned.criticalCount)
       /\ SlotValue("high-count") = toString(returned.highCount)
       /\ SlotValue("medium-count") = toString(returned.mediumCount)
       /\ SlotValue("low-count") = toString(returned.lowCount)
       /\ SlotCount("results-file") = 1 <=> returned.resultsFile # ""
       /\ SlotCount("results-file") = 1 => SlotValue("results-file") = returned.resultsFile
       /\ SlotCount("security-score") = 1 <=> returned.securityScore # <<>>
       /\ SlotCount("security-score") = 1 =>
            SlotValue("security-score") = toString(returned.securityScore[1])
       /\ SlotCount("scan-duration") = 1 <=> returned.scanDuration # <<>>
       /\ SlotCount("scan-duration") = 1 =>
            SlotValue("scan-duration") = toString(returned.scanDuration[1])
       /\ SlotCount("scan-url") = 1
       /\ SlotValue("scan-url") = generateScanUrl(inputs, returned.scanId)

\* A security score and a duration of 0 were emitted.
C18_Witness ==
  /\ pc = "done"
  /\ returned.securityScore = <<0>> /\ returned.scanDuration = <<0>>
  /\ SlotCount("security-score") = 1 /\ SlotValue("security-score") = <<"0">>
  /\ SlotCount("scan-duration") = 1 /\ SlotValue("scan-duration") = <<"0">>

\* C19: every configuration parseInputs returns has an integer timeout in
\* 60..86400 and an integer poll interval in 10..60, whatever text was
\* supplied, a text without digits or with a numeric prefix included.
C19_NumericInputsInRange ==
  inputs # Null =>
    /\ ~inputs.timeout.nan
    /\ 60 <= inputs.timeout.val /\ inputs.timeout.val <= 86400
    /\ ~inputs.pollInterval.nan
    /\ 10 <= inputs.pollInterval.val /\ inputs.pollInterval.val <= 60

\* C20: every configuration parseInputs returns has a non-negative integer
\* maxViolations: a negative or non-numeric text is not carried into it.
C20_MaxViolationsNonNegative ==
  inputs # Null =>
    ~inputs.maxViolations.nan /\ inputs.maxViolations.val >= 0

\* The state in which a threshold error is raised.
C21_ThresholdState ==
  error \in ThresholdErrors =>
    /\ pc \in {"catch", "failed"}
    /\ Called("validateAuth") /\ resp.validateAuth.ok
    /\ Called("importRepository") /\ resp.importRepository.ok
    /\ Called("runScan") /\ resp.runScan.ok
    /\ \E i \in DOMAIN calls :
         calls[i] = Call("exportScanResults", exportArgs(inputs, scanId))
    /\ resp.exportScanResults.ok /\ resp.writeFile.ok
    /\ results # Null
    /\ Len(files) = 1 /\ files[1].path = results.resultsFile
    /\ Called("uploadSarif") <=>
         (inputs.uploadSarif /\ inputs.outputFormat = "sarif")
    /\ returned = Null /\ outputSlots = <<>>

\* C21: a threshold error is raised only as the last step of a run: the four
\* stages before it succeeded, the results file is written and the findings
\* upload, when due, was attempted; the step that raises it and the steps
\* after it in the run make no remote call, file write or upload.
C21_ThresholdLast ==
  /\ []C21_ThresholdState
  /\ [][(error' \in ThresholdErrors /\ attempt' = attempt) =>
          (calls' = calls /\ files' = files)]_vars

\* A run failed on the high-severity threshold after its upload was attempted.
C21_Witness ==
  /\ pc = "failed" /\ error = ErrHigh /\ failed = <<ErrHigh>>
  /\ Called("uploadSarif")
  /\ calls[Len(calls)].op \in {"uploadSarif", "codeScanning.uploadSarif"}

BreakdownCalls == {i \in DOMAIN calls : IsBreakdown(calls[i])}

\* C22: the breakdown is fetched exactly for a synchronous scan that carries
\* results; when its export or the processing of its payload fails,
\* executeScan still returns the id of the triggered scan, no error leaves
\* it, and the next call is the export of the Export Results stage.
C22_BreakdownBestEffort ==
  Called("runScan") =>
    /\ Cardinality(BreakdownCalls) =
         (IF resp.runScan.ok /\ resp.runScan.synchronous /\ resp.runScan.results # Null
          THEN 1 ELSE 0)
    /\ \A i \in BreakdownCalls :
         /\ calls[i] = Call("exportScanResults", breakdownArgs(resp.runScan.id))
         /\ calls[i - 1].op = "runScan"
    /\ resp.runScan.ok =>
         /\ scanId = resp.runScan.id
         /\ error # ErrScanExecution
         /\ pc \notin {"executeScan", "catch", "failed"} \/ Count("exportScanResults") > Cardinality(BreakdownCalls)
         /\ \A i \in DOMAIN calls :
              (i > 1 /\ calls[i - 1].op \in {"runScan", "exportScanResults"}
                /\ (calls[i - 1].op = "runScan" => BreakdownCalls = {})
                /\ (calls[i - 1].op = "exportScanResults" => i - 1 \in BreakdownCalls)) =>
                calls[i] = Call("exportScanResults", exportArgs(inputs, resp.runScan.id))

\* A run succeeded although the export made for the breakdown failed.
C22_Witness ==
  /\ pc = "done" /\ Cardinality(BreakdownCalls) = 1
  /\ ~resp.breakdown.ok
  /\ Logged("debug", "Could not fetch violation type breakdown")
  /\ returned.scanId = resp.runScan.id

\* C23: the dashboard URL is the server URL with its API prefix rewritten
\* (https://api.<domain>, optionally ending in /api, becomes
\* https://app.<domain>; https://<host>/api becomes https://<host>; a URL
\* without an api prefix is kept), followed by /<organizationSlug>/scans/<scanId>.
C23_ScanUrl ==
  results # Null =>
    \A u \in ServerUrlSamples :
      env.serverUrl = u.text =>
        results.scanUrl = [baseUrl |-> u.expected,
                           path |-> <<env.organizationSlug, "scans", scanId>>]

\* The five severity counts of the outputs o are those of the summary s.
CountsAre(o, s) ==
  /\ o.violationCount = s.total
  /\ o.criticalCount = s.critical
  /\ o.highCount = s.high
  /\ o.mediumCount = s.medium
  /\ o.lowCount = s.low

\* C24: the severity counts of the outputs are those of the summary the
\* export of stage 4 returned, and all 0 when it returned none, whatever
\* counts runScan reported and whatever the breakdown export answered.
C24_CountsFromExport ==
  LET exported == resp.exportScanResults.summary
      expected == IF exported = Null
                  THEN [total |-> 0, critical |-> 0, high |-> 0, medium |-> 0, low |-> 0]
                  ELSE exported
  IN /\ results # Null => CountsAre(results, expected)
     /\ returned # Null => CountsAre(returned, expected)

\* runScan reported counts, the export returned no summary, and the outputs
\* carry zeros.
C24_Witness ==
  /\ pc = "done"
  /\ resp.runScan.results = ScanCounts
  /\ resp.exportScanResults.summary = Null
  /\ returned.violationCount = 0 /\ returned.criticalCount = 0

ExportCalls == {i \in DOMAIN calls : calls[i].op = "exportScanResults"} \ BreakdownCalls

\* The results file and the export it comes from.
C25_FileState ==
  /\ Len(files) <= 1
  /\ pc \in {"parseInputs", "construct", "validateAuthentication", "setupRepository",
              "executeScan", "processResults"} => files = <<>>
  /\ (ExportCalls # {} /\ ~resp.exportScanResults.ok) => files = <<>>
  /\ files # <<>> =>
       /\ Cardinality(ExportCalls) = 1
       /\ \A i \in ExportCalls :
            /\ calls[i].args.format = inputs.outputFormat
            /\ calls[i].args.scanId = scanId
       /\ resp.exportScanResults.ok
       /\ files[1].path = PathResolve(inputs.outputFile)
       /\ files[1].format = inputs.outputFormat
       /\ files[1].document = resp.exportScanResults.document
       /\ files[1].serialized = ~resp.exportScanResults.textual
       /\ files[1].document # resp.breakdown

\* C25: the results file is written at most once in a run, only by the
\* Export Results stage, with the payload of the export made in the
\* configured format (as it is when textual, serialized otherwise); the
\* payload of the breakdown export is not written, and nothing is written
\* when the export fails.
C25_ResultsFileOnce ==
  /\ []C25_FileState
  /\ [][(files' # files /\ attempt' = attempt) =>
          /\ pc = "processResults"
          /\ Len(files') = Len(files) + 1
          /\ calls'[Len(calls')] = Call("exportScanResults", exportArgs(inputs, scanId))]_vars

\* A JSON run with a breakdown fetched wrote its one serialized file.
C25_Witness ==
  /\ pc = "done" /\ Len(files) = 1
  /\ inputs.outputFormat = "json" /\ files[1].serialized
  /\ BreakdownCalls # {} /\ resp.breakdown.ok

\* C26: with the findings upload disabled, or an output format other than
\* sarif, a run without github-token and GITHUB_TOKEN still authenticates and
\* goes through the pipeline: it does not end on the missing credential.
C26_CredentialNotNeeded ==
  (/\ Terminal
   /\ inputs # Null
   /\ ~(inputs.uploadSarif /\ inputs.outputFormat = "sarif")
   /\ env.githubToken = "" /\ env.GITHUB_TOKEN = "") =>
    /\ error # ErrGitHubToken
    /\ Called("validateAuth")

C28_SuccessLoggedOnlyIfUploaded ==
  /\ Logged("info", "SARIF Upload: Results uploaded to GitHub Security tab") =>
       resp.uploadSarif.ok
  /\ Logged("warning", "SARIF upload failed") =>
       /\ ~Logged("info", "SARIF Upload: Results uploaded to GitHub Security tab")
       /\ ~Logged("info", "SARIF results uploaded successfully")

====
